---- MODULE Spec2Model ----
(***************************************************************************)
(* chatgpt-mcp: the blocking "submit prompt, poll, return the answer"      *)
(* operations of chatgpt.ts (blockingAsk, blockingReply, uploadFiles), the *)
(* poll loop pollUntilComplete, the completion detector                    *)
(* isGenerationComplete and the backoff schedule of utils/backoff.ts,     *)
(* with the tools selectProject and newConversation, the option match of   *)
(* selectModel and browser.ts's findElement.                               *)
(*                                                                         *)
(* Time is in milliseconds, measured from the moment the operation in      *)
(* flight was called (only differences of Date.now() are ever used).       *)
(* The page is the environment: every page call reads a page the           *)
(* environment chose.                                                      *)
(***************************************************************************)
EXTENDS Integers, Sequences, FiniteSets, TLC

VARIABLES
    \* ---- chatgpt.ts module state (lines 28-35) and browser.ts page (line 9)
    sessionState,        \* [isLoggedIn, currentModel, conversationId, currentProjectUrl]
    sessionInitialized,
    browserRunning,      \* page !== null && !page.isClosed()
    \* ---- the operation in flight
    pc,                  \* position of the operation in flight
    call,                \* [op, timeoutMinutes, model]: the tool call and its arguments
    exc,                 \* the exception travelling to the operation's catch block
    result,              \* the AskResult handed to the caller
    delivery,            \* "none" | "returned" | "thrown": how the operation ended
    now,                 \* Date.now(), relative to the call
    \* ---- locals of pollUntilComplete (lines 335-339)
    startTime,
    deadline,
    pollCount,
    lastContentLength,
    stableCount,
    det,                 \* result of the latest isGenerationComplete call
    pollRet,             \* value returned by pollUntilComplete
    \* ---- what the environment showed and what the loop did (observation only)
    page,                \* the page a single detector call is applied to (SpecDetect)
    finalText,           \* what the extraction after completion returned
    lastWaitMs,          \* the delay slept before the latest detector call
    sent,                \* number of send actions (click or Enter) of this operation
    typed,               \* whether the prompt was typed in this operation
    markerSeen,          \* some poll of this loop saw the marker on the last turn
    thinkingHist,        \* "none" | "always" | "never" | "mixed": isThinking over the polls
    sameRun,             \* number of latest consecutive polls with the same nonzero length
    scen,                \* progress of the polls along ScenarioLens, -1 once off it
    monitoring,          \* whether markerSeen, thinkingHist, sameRun, scen and sel record
    \* ---- the tools selectProject / newConversation, and single calls observed
    simple,              \* the SimpleResult handed to the caller, and where the tool navigated
    sel,                 \* the latest selectModel call: what the page showed, what it did
    urlRead,             \* whether this operation read the conversation id off the URL
    extracts,            \* extractions pollUntilComplete made after the detector's report
    located,             \* a findElement call: what each candidate matches, what it returned
    \* ---- further single calls observed, and browser.ts's module state
    extracted,           \* a getLatestResponseText call: what each strategy read, what it returned
    cleaned,             \* a text, and cleanText applied to it once and twice
    asked,               \* the project blockingAsk was called with (recorded when monitoring)
    login,               \* the login checks of the latest session start (recorded when monitoring)
    scan,                \* the option scan of a selectModel call: the items met, what it kept
    browser,             \* browser.ts: context and page (lines 8-9), and the contexts launched
    callers,             \* position of each concurrent getPage call, or of a second operation
    sending              \* a sendPromptText call: what its page actions met, what it did

vars == <<sessionState, sessionInitialized, browserRunning, pc, call, exc, result,
          delivery, now, startTime, deadline, pollCount, lastContentLength,
          stableCount, det, pollRet, page, finalText, lastWaitMs, sent, typed, markerSeen,
          thinkingHist, sameRun, scen, monitoring, simple, sel, urlRead, extracts,
          located, extracted, cleaned, asked, login, scan, browser, callers, sending>>

sessionVars == <<sessionState, sessionInitialized, browserRunning>>
pollLocals == <<startTime, deadline, pollCount, lastContentLength, stableCount, det>>
pollObs == <<page, finalText, lastWaitMs, markerSeen, thinkingHist, sameRun, scen,
            monitoring>>
auxObs == <<simple, sel, urlRead, extracts, located>>
fnObs == <<extracted, cleaned, asked, login, scan, browser, callers, sending>>

NULL == "null"

Min(a, b) == IF a < b THEN a ELSE b

\* ------------------------------------------------------------------ bounds

\* Largest timeout_minutes a caller passes (the tool schema allows 1..120).
MaxTimeoutMinutes == 4
\* Time a sleep may overrun its delay, or a page call may take.
DelayMs == 700

\* --------------------------------------------------------- utils/backoff.ts

FIB_DELAYS == <<2, 3, 5, 8, 13, 21, 30>>

DefaultMaxSeconds == 30

\* FIB_DELAYS is indexed from 0 in the source, from 1 here.
fibonacciBackoffOffByOne(pollNumber, maxSeconds) ==
    LET index == Min(pollNumber + 1, Len(FIB_DELAYS) - 1)
        seconds == Min(FIB_DELAYS[index + 1], maxSeconds)
    IN  seconds * 1000

fibonacciBackoff(pollNumber, maxSeconds) ==
    LET index == Min(pollNumber, Len(FIB_DELAYS) - 1)
        seconds == Min(FIB_DELAYS[index + 1], maxSeconds)
    IN  seconds * 1000

\* ------------------------------------------------------------------ the page

\* Answer texts the extraction can produce: two of equal length, one longer.
Texts == {"aaaaa", "bbbbb", "ccccccc"}

\* turns[i]: whether conversation turn i holds a copy-turn-action-button.
TurnShapes == { <<TRUE>>, <<FALSE, FALSE>>, <<FALSE, TRUE>>,
                <<FALSE, TRUE, FALSE, FALSE>>, <<FALSE, TRUE, FALSE, TRUE>> }

\* Lengths of the last turn's innerText on either side of the 200 limit.
TurnTextLens == {199, 200}

\* A page as the detector's two queries read it. thinkingUI, textMatches and
\* turnTextLen describe the last turn; text is what the extraction cascade
\* yields on a page with at least two turns (NULL: it yields nothing, null or
\* the empty string, between which lines 243 and 352 make no difference).
\* stopButton and streaming are the two signals lines 217-220 name and no
\* query reads: a stop-button element on the page, a streaming class or flag.
Pages == [turns : TurnShapes, thinkingUI : BOOLEAN, textMatches : BOOLEAN,
          turnTextLen : TurnTextLens, text : Texts \cup {NULL},
          stopButton : BOOLEAN, streaming : BOOLEAN]

\* The pages the poll loop is run against: those of Pages whose thinking
\* classification rests on the text pattern alone, with the stop button that
\* stays in the DOM for good (line 217) and no streaming flag (line 220).
PollPages == {pg \in Pages : ~pg.thinkingUI /\ pg.turnTextLen = 199
                              /\ pg.turns # <<TRUE>>
                              /\ pg.stopButton /\ ~pg.streaming}


\* getLatestResponseText: null with fewer than two turns, else the cascade's text.
getLatestResponseText(pg) ==
    IF Len(pg.turns) < 2 THEN NULL ELSE pg.text

ContentLength(text) == IF text = NULL THEN 0 ELSE Len(text)

\* The marker looked for anywhere on the page instead of inside the last turn.
lastTurnHasCopyPageWide(pg) ==
    Len(pg.turns) >= 2 /\ \E i \in 1..Len(pg.turns) : pg.turns[i]

lastTurnHasCopy(pg) ==
    Len(pg.turns) >= 2 /\ pg.turns[Len(pg.turns)]

THINKING_TEXT_LIMIT == 200

isThinking(pg) ==
    Len(pg.turns) >= 2
    /\ (pg.thinkingUI \/ (pg.textMatches /\ pg.turnTextLen < THINKING_TEXT_LIMIT))

\* Some turn before the last one holds the marker.
EarlierTurnHasCopy(pg) ==
    \E i \in 1..(Len(pg.turns) - 1) : pg.turns[i]

\* The pages the extraction after completion is run against: one per outcome
\* of the extraction.
ExtractPages == {pg \in PollPages : pg.turns = <<FALSE, TRUE>> /\ ~pg.textMatches}

NoPage == [turns |-> <<>>, thinkingUI |-> FALSE, textMatches |-> FALSE,
           turnTextLen |-> 0, text |-> NULL, stopButton |-> FALSE,
           streaming |-> FALSE]

\* ------------------------------------------------------ isGenerationComplete

FALLBACK_STABLE_THRESHOLD == 10

PRIMARY_STABLE_THRESHOLD == 1

newStableCountNoReset(currentLength, lastLen, stable) ==
    IF currentLength > 0 /\ currentLength = lastLen THEN stable + 1 ELSE stable

\* A count that takes the first non-empty measurement for a stable one.
newStableCountCountsFirst(currentLength, lastLen, stable) ==
    IF currentLength > 0 /\ (currentLength = lastLen \/ lastLen = 0) THEN stable + 1
    ELSE 0

newStableCountOf(currentLength, lastLen, stable) ==
    IF currentLength > 0 /\ currentLength = lastLen THEN stable + 1 ELSE 0

highConfidenceLowThreshold(pg, currentLength, newStable) ==
    \/ (lastTurnHasCopy(pg) /\ currentLength > 0 /\ newStable >= PRIMARY_STABLE_THRESHOLD)
    \/ (~isThinking(pg) /\ currentLength > 0 /\ newStable >= 3)

highConfidenceIgnoresThinking(pg, currentLength, newStable) ==
    \/ (lastTurnHasCopy(pg) /\ currentLength > 0 /\ newStable >= PRIMARY_STABLE_THRESHOLD)
    \/ (currentLength > 0 /\ newStable >= FALLBACK_STABLE_THRESHOLD)

highConfidenceStrictStable(pg, currentLength, newStable) ==
    \/ (lastTurnHasCopy(pg) /\ currentLength > 0 /\ newStable > PRIMARY_STABLE_THRESHOLD)
    \/ (~isThinking(pg) /\ currentLength > 0 /\ newStable >= FALLBACK_STABLE_THRESHOLD)

\* A decision that also waits for the stop button and the streaming flag to go.
highConfidenceWaitsForStop(pg, currentLength, newStable) ==
    /\ ~pg.stopButton /\ ~pg.streaming
    /\ \/ (lastTurnHasCopy(pg) /\ currentLength > 0
                               /\ newStable >= PRIMARY_STABLE_THRESHOLD)
       \/ (~isThinking(pg) /\ currentLength > 0
                           /\ newStable >= FALLBACK_STABLE_THRESHOLD)

highConfidence(pg, currentLength, newStable) ==
    \/ (lastTurnHasCopy(pg) /\ currentLength > 0 /\ newStable >= PRIMARY_STABLE_THRESHOLD)
    \/ (~isThinking(pg) /\ currentLength > 0 /\ newStable >= FALLBACK_STABLE_THRESHOLD)

\* The decision taken on the stable count of the previous poll.
isGenerationCompleteOldStable(pg, lastLen, stable) ==
    LET currentLength == ContentLength(getLatestResponseText(pg))
        newStable == newStableCountOf(currentLength, lastLen, stable)
    IN  [complete |-> highConfidence(pg, currentLength, stable),
         contentLength |-> currentLength,
         newStableCount |-> newStable]

isGenerationComplete(pg, lastLen, stable) ==
    LET currentLength == ContentLength(getLatestResponseText(pg))
        newStable == newStableCountOf(currentLength, lastLen, stable)
    IN  [complete |-> highConfidence(pg, currentLength, newStable),
         contentLength |-> currentLength,
         newStableCount |-> newStable]

NoDet == [complete |-> FALSE, contentLength |-> 0, newStableCount |-> 0]

\* ------------------------------------------------------- errors and results

\* An Error: its kind, what the Timeout message carries, and the option labels
\* the "not found" message of selectModel lists.
Err(kind) == [kind |-> kind, minutes |-> 0, elapsedSeconds |-> 0, available |-> <<>>]

NoError == Err("none")

TimeoutError(minutes, elapsedSeconds) ==
    [kind |-> "Timeout", minutes |-> minutes, elapsedSeconds |-> elapsedSeconds,
     available |-> <<>>]

\* The record every catch block and early return of the three operations builds.
ErrorResult(e) ==
    [response |-> "", elapsed_seconds |-> 0, model |-> NULL, chat_id |-> NULL,
     poll_count |-> 0, error |-> e]

\* A success result that carries nothing of the session.
SuccessResultWithoutSession(ret, ss) ==
    [response |-> ret.response, elapsed_seconds |-> ret.elapsedSeconds,
     model |-> NULL, chat_id |-> NULL, poll_count |-> ret.pollCount, error |-> NoError]

\* The record built after pollUntilComplete returned.
SuccessResult(ret, ss) ==
    [response |-> ret.response, elapsed_seconds |-> ret.elapsedSeconds,
     model |-> ss.currentModel, chat_id |-> ss.conversationId,
     poll_count |-> ret.pollCount, error |-> NoError]

NoResult == ErrorResult(NoError)

NoPollRet == [response |-> "", pollCount |-> 0, elapsedSeconds |-> 0]

\* The SimpleResult of selectProject and newConversation (message: the failure
\* it describes, none on success), with the URL the tool navigated to.
SimpleResult(success, message, navigated) ==
    [returned |-> TRUE, success |-> success, message |-> message,
     navigated |-> navigated, projectBefore |-> simple.projectBefore,
     navOk |-> simple.navOk]

\* Before a tool returned; projectBefore is the currentProjectUrl the tool call
\* found when it arrived; navOk is what navigateTo returned to newConversation
\* (recorded when monitoring).
NoSimple == [returned |-> FALSE, success |-> FALSE, message |-> NoError,
             navigated |-> NULL, projectBefore |-> NULL, navOk |-> TRUE]

\* ------------------------------------------------------------ pollUntilComplete

Durations == {0, DelayMs}

ScenarioLens == <<0, 5, 5, 5, 7, 7>>

ScenarioStable == <<0, 0, 1, 2, 0, 1>>

ElapsedSeconds(t, start) == (t - start) \div 1000

\* A deadline computed in seconds on a clock that counts milliseconds.
DeadlineInSeconds(start, timeoutMinutes) == start + timeoutMinutes * 60

\* Line 336.
Deadline(start, timeoutMinutes) == start + timeoutMinutes * 60 * 1000

\* Lines 335-339: the loop's locals.
PollStart ==
    /\ pc = "pollStart"
    /\ startTime' = now
    /\ deadline' = Deadline(now, call.timeoutMinutes)
    /\ pollCount' = 0
    /\ lastContentLength' = 0
    /\ stableCount' = 0
    /\ pc' = "poll"
    /\ UNCHANGED <<fnObs, auxObs, sessionVars, call, exc, result, delivery, now, det, pollRet,
                   pollObs, sent, typed>>

NextThinkingHist(h, t) ==
    CASE h = "none" -> IF t THEN "always" ELSE "never"
      [] h = "always" -> IF t THEN "always" ELSE "mixed"
      [] h = "never" -> IF t THEN "mixed" ELSE "never"
      [] OTHER -> "mixed"

NextSameRun(n, len, lastLen) ==
    IF len = 0 THEN 0 ELSE IF len = lastLen THEN n + 1 ELSE 1

NextScen(s, k, len) ==
    IF s >= 0 /\ s = k - 1 /\ k <= Len(ScenarioLens) /\ ScenarioLens[k] = len
    THEN k
    ELSE IF s >= Len(ScenarioLens) THEN s ELSE -1

\* The delay the loop sleeps before detector call number pollNumber (line 342).
WaitMs(pollNumber) == fibonacciBackoff(pollNumber, DefaultMaxSeconds)

\* Lines 341-348 with a detector call that returns: one sleep, one detection.
PollIteration ==
    /\ pc = "poll"
    /\ now < deadline
    /\ \E d \in Durations, pg \in PollPages :
         LET waitMs == WaitMs(pollCount)
             r == isGenerationComplete(pg, lastContentLength, stableCount)
         IN  /\ now' = now + waitMs + d
             /\ lastWaitMs' = waitMs
             /\ pollCount' = pollCount + 1
             /\ det' = r
             /\ lastContentLength' = r.contentLength
             /\ stableCount' = r.newStableCount
             /\ IF monitoring
                THEN /\ markerSeen' = (markerSeen \/ lastTurnHasCopy(pg))
                     /\ thinkingHist' = NextThinkingHist(thinkingHist, isThinking(pg))
                     /\ sameRun' = NextSameRun(sameRun, r.contentLength, lastContentLength)
                     /\ scen' = NextScen(scen, pollCount + 1, r.contentLength)
                ELSE UNCHANGED <<markerSeen, thinkingHist, sameRun, scen>>
             /\ pc' = IF r.complete THEN "extract" ELSE "poll"
    /\ UNCHANGED <<fnObs, auxObs, sessionVars, call, exc, result, delivery, startTime, deadline,
                   pollRet, page, finalText, sent, typed, monitoring>>

\* Lines 341-346 with a detector call that throws (getPage or the indicator
\* query, lines 229-255): the exception leaves pollUntilComplete.
PollIterationThrows ==
    /\ pc = "poll"
    /\ now < deadline
    /\ \E d \in Durations :
         /\ now' = now + WaitMs(pollCount) + d
         /\ lastWaitMs' = WaitMs(pollCount)
    /\ pollCount' = pollCount + 1
    /\ exc' = Err("EvaluateFailed")
    /\ pc' = "catch"
    /\ UNCHANGED <<fnObs, auxObs, sessionVars, call, result, delivery, startTime, deadline,
                   lastContentLength, stableCount, det, pollRet, page, finalText, markerSeen,
                   thinkingHist, sameRun, scen, monitoring, sent, typed>>

\* A completion that makes no further extraction and hands back a text of the
\* length the detector measured.
FinalExtractReusesMeasured ==
    /\ pc = "extract"
    /\ \E response \in Texts :
         /\ Len(response) = det.contentLength
         /\ pollRet' = [response |-> response, pollCount |-> pollCount,
                        elapsedSeconds |-> ElapsedSeconds(now, startTime)]
    /\ pc' = "return"
    /\ UNCHANGED <<fnObs, auxObs, sessionVars, call, exc, result, delivery, now, pollLocals,
                   pollObs, sent, typed>>

\* A completion that tests the deadline once more before it returns, and
\* reports a timeout when the clock has passed it.
FinalExtractChecksDeadline ==
    /\ pc = "extract"
    /\ \E d \in Durations, pg \in ExtractPages :
         LET response == getLatestResponseText(pg)
         IN  /\ now' = now + d
             /\ IF now + d < deadline
                THEN /\ finalText' = response
                     /\ extracts' = extracts + 1
                     /\ pollRet' = [response |-> IF response = NULL THEN "" ELSE response,
                                    pollCount |-> pollCount,
                                    elapsedSeconds |-> ElapsedSeconds(now + d, startTime)]
                     /\ pc' = "return"
                     /\ UNCHANGED exc
                ELSE /\ exc' = TimeoutError(call.timeoutMinutes,
                                            ElapsedSeconds(now + d, startTime))
                     /\ pc' = "catch"
                     /\ UNCHANGED <<finalText, extracts, pollRet>>
    /\ UNCHANGED <<fnObs, simple, sel, urlRead, located, sessionVars, call, result,
                   delivery, pollLocals, lastWaitMs,
                   page, markerSeen, thinkingHist, sameRun, scen, monitoring, sent, typed>>

\* Lines 350-359: the fresh extraction after the detector reported complete.
FinalExtract ==
    /\ pc = "extract"
    /\ \E d \in Durations, pg \in ExtractPages :
         LET response == getLatestResponseText(pg)
         IN  /\ now' = now + d
             /\ finalText' = response
             /\ extracts' = extracts + 1
             /\ pollRet' = [response |-> IF response = NULL THEN "" ELSE response,
                            pollCount |-> pollCount,
                            elapsedSeconds |-> ElapsedSeconds(now + d, startTime)]
    /\ pc' = "return"
    /\ UNCHANGED <<fnObs, simple, sel, urlRead, located, sessionVars, call, exc, result,
                   delivery, pollLocals, lastWaitMs,
                   page, markerSeen, thinkingHist, sameRun, scen, monitoring, sent, typed>>


\* A loop without the exit of lines 363-367: at its deadline it goes nowhere.
PollTimeoutAbsent ==
    /\ pc = "poll"
    /\ ~(now < deadline)
    /\ UNCHANGED vars

\* Lines 363-367: the loop test of line 341 failed, the loop ended without
\* completion.
PollTimeout ==
    /\ pc = "poll"
    /\ ~(now < deadline)
    /\ exc' = TimeoutError(call.timeoutMinutes, ElapsedSeconds(now, startTime))
    /\ pc' = "catch"
    /\ UNCHANGED <<fnObs, auxObs, sessionVars, call, result, delivery, now, pollLocals, pollRet,
                   pollObs, sent, typed>>

\* ------------------------------------------------------------ session (lines 28-87)

\* CONFIG.defaultProject, the project every session start selects.
DefaultProject == "claude"

Projects == {"claude", "work"}

ProjectUrl(name) ==
    IF name = "claude" THEN "https://chatgpt.com/g/g-p-claude/project"
    ELSE "https://chatgpt.com/g/g-p-work/project"

\* Model names a caller of the running server asks for.
ModelNames == {"Instant"}

\* Conversation identifiers the URL can show after a send (NULL: no /c/<id> in it).
ChatIds == {"c-1"}

InitialSessionState ==
    [isLoggedIn |-> FALSE, currentModel |-> NULL, conversationId |-> NULL,
     currentProjectUrl |-> NULL]

LOGIN_ATTEMPTS == 3

\* selectProject (lines 567-620) on an initialized session with a running browser:
\* outcome is what the sidebar query and the navigation did.
SelectProjectOutcomes == {"found", "notfound", "gotoThrows"}

\* A selectProject that records the project before it navigates to it.
selectProjectRecordsFirst(ss, name, outcome) ==
    CASE outcome = "found" ->
           [ss |-> [ss EXCEPT !.currentProjectUrl = ProjectUrl(name),
                              !.conversationId = NULL],
            success |-> TRUE, message |-> Err("none")]
      [] outcome = "notfound" ->
           [ss |-> ss, success |-> FALSE, message |-> Err("ProjectNotFound")]
      [] OTHER ->
           [ss |-> [ss EXCEPT !.currentProjectUrl = ProjectUrl(name),
                              !.conversationId = NULL],
            success |-> FALSE, message |-> Err("ProjectSelectFailed")]

\* A selectProject that switches the project and keeps the conversation id.
selectProjectKeepsConversation(ss, name, outcome) ==
    CASE outcome = "found" ->
           [ss |-> [ss EXCEPT !.currentProjectUrl = ProjectUrl(name)],
            success |-> TRUE, message |-> Err("none")]
      [] outcome = "notfound" ->
           [ss |-> ss, success |-> FALSE, message |-> Err("ProjectNotFound")]
      [] OTHER ->
           [ss |-> ss, success |-> FALSE, message |-> Err("ProjectSelectFailed")]

selectProject(ss, name, outcome) ==
    CASE outcome = "found" ->
           [ss |-> [ss EXCEPT !.currentProjectUrl = ProjectUrl(name),
                              !.conversationId = NULL],
            success |-> TRUE, message |-> Err("none")]
      [] outcome = "notfound" ->
           [ss |-> ss, success |-> FALSE, message |-> Err("ProjectNotFound")]
      [] OTHER ->
           [ss |-> ss, success |-> FALSE, message |-> Err("ProjectSelectFailed")]

\* ------------------------------------------------------ selectModel (lines 377-558)

\* Texts the model button and the dropdown options carry, and names asked for.
Labels == {"GPT-5 Instant", "GPT-5 Thinking", "GPT-5 Pro", "Pro", "Thinking"}

ButtonTexts == Labels \cup {"Auto"}

Targets == ModelNames \cup {"pro", "PRO ", "thin", "Thinking", "o3"}

\* The characters of each text.
Chars(text) ==
    CASE text = "GPT-5 Instant" ->
           <<"G", "P", "T", "-", "5", " ", "I", "n", "s", "t", "a", "n", "t">>
      [] text = "GPT-5 Thinking" ->
           <<"G", "P", "T", "-", "5", " ", "T", "h", "i", "n", "k", "i", "n", "g">>
      [] text = "GPT-5 Pro" -> <<"G", "P", "T", "-", "5", " ", "P", "r", "o">>
      [] text = "Pro" -> <<"P", "r", "o">>
      [] text = "Thinking" -> <<"T", "h", "i", "n", "k", "i", "n", "g">>
      [] text = "Auto" -> <<"A", "u", "t", "o">>
      [] text = "Instant" -> <<"I", "n", "s", "t", "a", "n", "t">>
      [] text = "pro" -> <<"p", "r", "o">>
      [] text = "PRO " -> <<"P", "R", "O", " ">>
      [] text = "thin" -> <<"t", "h", "i", "n">>
      [] text = "o3" -> <<"o", "3">>
      [] text = "GPT" -> <<"G", "P", "T">>
      [] text = "4o" -> <<"4", "o">>
      [] text = "ChatGPT said:" ->
           <<"C", "h", "a", "t", "G", "P", "T", " ", "s", "a", "i", "d", ":">>
      [] text = "ChatGPT said" ->
           <<"C", "h", "a", "t", "G", "P", "T", " ", "s", "a", "i", "d">>
      [] text = "Pro thinking" ->
           <<"P", "r", "o", " ", "t", "h", "i", "n", "k", "i", "n", "g">>
      [] text = "Answer now" -> <<"A", "n", "s", "w", "e", "r", " ", "n", "o", "w">>
      [] text = "Extended thinking" ->
           <<"E", "x", "t", "e", "n", "d", "e", "d", " ", "t", "h", "i", "n", "k",
             "i", "n", "g">>
      [] text = "Show thinking" ->
           <<"S", "h", "o", "w", " ", "t", "h", "i", "n", "k", "i", "n", "g">>
      [] text = "Hide thinking" ->
           <<"H", "i", "d", "e", " ", "t", "h", "i", "n", "k", "i", "n", "g">>
      [] text = "Reasoning" -> <<"R", "e", "a", "s", "o", "n", "i", "n", "g">>
      [] text = "Thinking..." ->
           <<"T", "h", "i", "n", "k", "i", "n", "g", ".", ".", ".">>
      [] text = "Thinking<u2026>" ->
           <<"T", "h", "i", "n", "k", "i", "n", "g", "<u2026>">>
      [] text = "<u2022> " -> <<"<u2022>", " ">>
      [] text = "Answer " -> <<"A", "n", "s", "w", "e", "r", " ">>
      [] text = "now" -> <<"n", "o", "w">>
      [] text = " " -> <<" ">>
      [] text = "hello" -> <<"h", "e", "l", "l", "o">>
      [] text = "15 seconds " ->
           <<"1", "5", " ", "s", "e", "c", "o", "n", "d", "s", " ">>
      [] text = "Pro " -> <<"P", "r", "o", " ">>
      [] text = "thinking" -> <<"t", "h", "i", "n", "k", "i", "n", "g">>
      [] text = "ChatGPT said:hello" ->
           <<"C", "h", "a", "t", "G", "P", "T", " ", "s", "a", "i", "d", ":", "h",
             "e", "l", "l", "o">>
      [] text = "Pro\nmax" -> <<"P", "r", "o", "\n", "m", "a", "x">>
      [] text = "ProResearch" ->
           <<"P", "r", "o", "R", "e", "s", "e", "a", "r", "c", "h">>
      [] text = "Close" -> <<"C", "l", "o", "s", "e">>
      [] text = "Decides" -> <<"D", "e", "c", "i", "d", "e", "s">>
      [] text = "Answers" -> <<"A", "n", "s", "w", "e", "r", "s">>
      [] text = "Thinks" -> <<"T", "h", "i", "n", "k", "s">>
      [] text = "Research" -> <<"R", "e", "s", "e", "a", "r", "c", "h">>
      [] text = "how long" -> <<"h", "o", "w", " ", "l", "o", "n", "g">>
      [] text = "right away" -> <<"r", "i", "g", "h", "t", " ", "a", "w", "a", "y">>
      [] text = "longer for" -> <<"l", "o", "n", "g", "e", "r", " ", "f", "o", "r">>
      [] text = "close" -> <<"c", "l", "o", "s", "e">>
      [] text = "back" -> <<"b", "a", "c", "k">>
      [] text = "auto" -> <<"a", "u", "t", "o">>
      [] text = "instant" -> <<"i", "n", "s", "t", "a", "n", "t">>
      [] text = "legacy" -> <<"l", "e", "g", "a", "c", "y">>
      [] text = "gpt" -> <<"g", "p", "t">>
      [] text = "chatgpt" -> <<"c", "h", "a", "t", "g", "p", "t">>
      [] text = "" -> <<>>

UpperCase == <<"A", "C", "D", "E", "G", "H", "I", "K", "N", "O", "P", "R", "S", "T">>

LowerCase == <<"a", "c", "d", "e", "g", "h", "i", "k", "n", "o", "p", "r", "s", "t">>

\* The characters \s and String.trim take for white space.
WhiteSpace == {" ", "\n"}

toLowerCase(cs) ==
    [i \in 1..Len(cs) |->
        IF \E j \in 1..Len(UpperCase) : UpperCase[j] = cs[i]
        THEN LowerCase[CHOOSE j \in 1..Len(UpperCase) : UpperCase[j] = cs[i]]
        ELSE cs[i]]

trim(cs) ==
    LET kept == {i \in 1..Len(cs) : cs[i] \notin WhiteSpace}
    IN  IF kept = {} THEN <<>>
        ELSE SubSeq(cs, CHOOSE i \in kept : \A j \in kept : i <= j,
                        CHOOSE i \in kept : \A j \in kept : i >= j)

startsWith(cs, prefix) ==
    Len(prefix) <= Len(cs) /\ SubSeq(cs, 1, Len(prefix)) = prefix

includes(cs, part) ==
    \E i \in 0..(Len(cs) - Len(part)) : SubSeq(cs, i + 1, i + Len(part)) = part

\* String.indexOf: where the first occurrence starts, counted from 0; -1 if none.
indexOf(cs, part) ==
    LET at == {i \in 0..(Len(cs) - Len(part)) : SubSeq(cs, i + 1, i + Len(part)) = part}
    IN  IF at = {} THEN -1 ELSE CHOOSE i \in at : \A j \in at : i <= j

\* Largest number of options the dropdown is drawn with.
MaxOptions == 3

\* availableOptions: the labels the scan of lines 505-523 collected, in
\* discovery order, each once (seenTexts); empty also when no dropdown
\* container was found (line 490).
OptionLists ==
    UNION {{o \in [1..n -> Labels] : \A i, j \in 1..n : o[i] = o[j] => i = j}
           : n \in 0..MaxOptions}

\* What selectModel's three page queries meet: the model button's text (NULL:
\* no such button), whether a button to open the dropdown was found and
\* clicked, and the options of the dropdown.
Menus == [button : ButtonTexts \cup {NULL}, clickable : BOOLEAN, options : OptionLists]

FirstOf(indices) ==
    IF indices = {} THEN 0 ELSE CHOOSE i \in indices : \A j \in indices : i <= j

\* A match that takes the first option containing the target.
MatchIndexFirstContaining(options, targetLower) ==
    FirstOf({i \in 1..Len(options) :
                includes(toLowerCase(Chars(options[i])), targetLower)})

\* Lines 525-545: the index of the option clicked, 0 when none matches.
MatchIndex(options, targetLower) ==
    LET exact == {i \in 1..Len(options) :
                     toLowerCase(Chars(options[i])) = targetLower}
        starts == {i \in 1..Len(options) :
                      startsWith(toLowerCase(Chars(options[i])), targetLower)}
        contains == {i \in 1..Len(options) :
                        includes(toLowerCase(Chars(options[i])), targetLower)}
    IN  IF exact # {} THEN FirstOf(exact)
        ELSE IF starts # {} THEN FirstOf(starts)
        ELSE FirstOf(contains)

\* Lines 381-397: the button's text when it names a model.
CurrentModelLabel(m) ==
    IF m.button # NULL
       /\ (\/ includes(Chars(m.button), Chars("GPT"))
           \/ includes(Chars(m.button), Chars("Pro"))
           \/ includes(Chars(m.button), Chars("4o")))
    THEN m.button
    ELSE NULL

\* Line 399.
AlreadyActive(m, modelName) ==
    /\ CurrentModelLabel(m) # NULL
    /\ includes(toLowerCase(Chars(CurrentModelLabel(m))), toLowerCase(Chars(modelName)))

\* A selectModel that opens the dropdown whatever the button already shows.
selectModelAlwaysOpens(ss, modelName, m) ==
    LET k == MatchIndex(m.options, trim(toLowerCase(Chars(modelName))))
        quiet == [ss |-> ss, returned |-> NULL, thrown |-> NoError, clicks |-> 0,
                  escapes |-> 0]
    IN  IF ~m.clickable
        THEN [quiet EXCEPT !.thrown = Err("ModelSelectorNotFound")]
        ELSE IF k = 0
        THEN [quiet EXCEPT !.thrown = [Err("OptionNotFound") EXCEPT
                                          !.available = m.options],
                           !.clicks = 1, !.escapes = 1]
        ELSE [quiet EXCEPT !.ss = [ss EXCEPT !.currentModel = m.options[k]],
                           !.returned = m.options[k], !.clicks = 2]

\* A selectModel that records the asked name before it looked for the option.
selectModelRecordsEarly(ss, modelName, m) ==
    LET k == MatchIndex(m.options, trim(toLowerCase(Chars(modelName))))
        quiet == [ss |-> ss, returned |-> NULL, thrown |-> NoError, clicks |-> 0,
                  escapes |-> 0]
    IN  IF AlreadyActive(m, modelName)
        THEN [quiet EXCEPT !.ss = [ss EXCEPT !.currentModel = CurrentModelLabel(m)],
                           !.returned = CurrentModelLabel(m)]
        ELSE IF ~m.clickable
        THEN [quiet EXCEPT !.thrown = Err("ModelSelectorNotFound")]
        ELSE IF k = 0
        THEN [quiet EXCEPT !.ss = [ss EXCEPT !.currentModel = modelName],
                           !.thrown = [Err("OptionNotFound") EXCEPT
                                          !.available = m.options],
                           !.clicks = 1, !.escapes = 1]
        ELSE [quiet EXCEPT !.ss = [ss EXCEPT !.currentModel = m.options[k]],
                           !.returned = m.options[k], !.clicks = 2]

\* selectModel on the page m: the session state it leaves, what it returned or
\* threw, the clicks it made on the page (the button, then the option) and the
\* Escape presses.
selectModel(ss, modelName, m) ==
    LET k == MatchIndex(m.options, trim(toLowerCase(Chars(modelName))))
        quiet == [ss |-> ss, returned |-> NULL, thrown |-> NoError, clicks |-> 0,
                  escapes |-> 0]
    IN  IF AlreadyActive(m, modelName)
        THEN [quiet EXCEPT !.ss = [ss EXCEPT !.currentModel = CurrentModelLabel(m)],
                           !.returned = CurrentModelLabel(m)]
        ELSE IF ~m.clickable
        THEN [quiet EXCEPT !.thrown = Err("ModelSelectorNotFound")]
        ELSE IF k = 0
        THEN [quiet EXCEPT !.thrown = [Err("OptionNotFound") EXCEPT
                                          !.available = m.options],
                           !.clicks = 1, !.escapes = 1]
        ELSE [quiet EXCEPT !.ss = [ss EXCEPT !.currentModel = m.options[k]],
                           !.returned = m.options[k], !.clicks = 2]

NoMenu == [button |-> NULL, clickable |-> FALSE, options |-> <<>>]

\* ------------------------ the option scan of selectModel (lines 434-439, 493-523)

\* s.split(part)[0]: what stands before the first occurrence of part.
firstPiece(cs, part) ==
    IF indexOf(cs, part) < 0 THEN cs ELSE SubSeq(cs, 1, indexOf(cs, part))

\* Lines 434-439 on an element's textContent.
getOptionText(textContent) ==
    LET text == trim(textContent)
        firstLine == trim(firstPiece(text, <<"\n">>))
        mainText == trim(firstPiece(firstPiece(firstPiece(firstPiece(firstLine,
                            Chars("Decides")), Chars("Answers")), Chars("Thinks")),
                            Chars("Research")))
    IN  IF Len(mainText) > 0 /\ Len(mainText) < 40 THEN mainText
        ELSE SubSeq(firstLine, 1, IF Len(firstLine) < 40 THEN Len(firstLine) ELSE 40)

\* Line 515, in lower case as line 516 compares them.
skipPatterns ==
    {Chars("how long"), Chars("right away"), Chars("longer for"), Chars("close"),
     Chars("back")}

\* The alternatives of line 508, in lower case (the expression ignores case).
modePatterns ==
    {Chars("auto"), Chars("instant"), Chars("thinking"), Chars("pro"), Chars("legacy"),
     Chars("gpt"), Chars("chatgpt")}

\* Lines 514-517: a label the scan takes for a model option.
IsModeLabel(label) ==
    /\ Len(label) >= 2
    /\ Len(label) <= 50
    /\ \A p \in skipPatterns : ~includes(toLowerCase(label), p)
    /\ \E p \in modePatterns : startsWith(toLowerCase(label), p)

\* Most elements the candidate selectors match inside the dropdown.
MaxItems == 3

\* The textContent of the elements met.
RawOptions == {"Pro", "Pro\nmax", "ProResearch", "Thinking", "Close"}

\* The elements the loops of lines 510-511 go through, in the order they are
\* met (candidate selector by candidate selector, page order within one); an
\* element is named by its place in that order. sized: its box passes line 513.
ItemLists == UNION {[1..n -> [raw : RawOptions, sized : BOOLEAN]] : n \in 0..MaxItems}

RECURSIVE scanFromNoSeen(_, _, _)

\* A scan that keeps every element with a model label, seen before or not.
scanFromNoSeen(items, i, available) ==
    IF i > Len(items) THEN available
    ELSE LET text == getOptionText(Chars(items[i].raw))
         IN  IF items[i].sized /\ IsModeLabel(text)
             THEN scanFromNoSeen(items, i + 1,
                                 Append(available, [text |-> text, element |-> i]))
             ELSE scanFromNoSeen(items, i + 1, available)

RECURSIVE scanFrom(_, _, _)

\* Lines 510-523 from item i on; available: availableOptions so far (seenTexts
\* holds exactly its texts).
scanFrom(items, i, available) ==
    IF i > Len(items) THEN available
    ELSE LET text == getOptionText(Chars(items[i].raw))
             seen == \E k \in 1..Len(available) : available[k].text = text
         IN  IF items[i].sized /\ ~seen /\ IsModeLabel(text)
             THEN scanFrom(items, i + 1,
                           Append(available, [text |-> text, element |-> i]))
             ELSE scanFrom(items, i + 1, available)

\* The label a text spells.
LabelOf(cs) == CHOOSE t \in Labels \cup {"GPT"} : Chars(t) = cs

\* Lines 505-545 of one selectModel call: the options kept, and the element
\* clicked (0: none, no option matches).
scanAndClick(items, modelName) ==
    LET available == scanFrom(items, 1, <<>>)
        k == MatchIndex([j \in 1..Len(available) |-> LabelOf(available[j].text)],
                        trim(toLowerCase(Chars(modelName))))
    IN  [available |-> available,
         clicked |-> IF k = 0 THEN 0 ELSE available[k].element,
         selected |-> IF k = 0 THEN NULL ELSE LabelOf(available[k].text)]

NoScan ==
    [called |-> FALSE, items |-> <<>>, modelName |-> NULL, available |-> <<>>,
     clicked |-> 0, selected |-> NULL]

NoSel == [called |-> FALSE, modelName |-> NULL, menu |-> NoMenu, before |-> NULL,
          after |-> NULL, returned |-> NULL, thrown |-> NoError, clicks |-> 0,
          escapes |-> 0]

\* A session start that checks the login once and does not retry.
loginLoopSingleCheck(checks, attempt) ==
    [isLoggedIn |-> checks[attempt], performed |-> attempt]

RECURSIVE loginLoopFrom(_, _)

\* The loop of lines 63-68 from the given attempt on (attempts counted from 1):
\* what isLoggedIn ends as, and how many checks were made.
loginLoopFrom(checks, attempt) ==
    IF attempt > LOGIN_ATTEMPTS
    THEN [isLoggedIn |-> FALSE, performed |-> LOGIN_ATTEMPTS]
    ELSE IF checks[attempt] THEN [isLoggedIn |-> TRUE, performed |-> attempt]
    ELSE loginLoopFrom(checks, attempt + 1)

\* A session start that selects the default project whatever project is set,
\* and on every call.
ensureSessionAlwaysDefault(ss, initialized, running, launchOk, navOk, checks, projOutcome) ==
    LET loop == loginLoopFrom(checks, 1)
        logged == [ss EXCEPT !.isLoggedIn = loop.isLoggedIn]
        fresh == ~(initialized /\ running)
    IN  IF fresh /\ ~launchOk
        THEN [ss |-> ss, initialized |-> initialized, running |-> running,
              thrown |-> Err("LaunchFailed"), loginChecks |-> 0]
        ELSE IF fresh /\ ~navOk
             THEN [ss |-> ss, initialized |-> initialized, running |-> TRUE,
                   thrown |-> Err("NavigationFailed"), loginChecks |-> 0]
        ELSE IF fresh /\ ~loop.isLoggedIn
             THEN [ss |-> logged, initialized |-> TRUE, running |-> TRUE,
                   thrown |-> Err("NotLoggedIn"), loginChecks |-> loop.performed]
        ELSE [ss |-> selectProject(IF fresh THEN logged ELSE ss, DefaultProject,
                                   projOutcome).ss,
              initialized |-> TRUE, running |-> TRUE, thrown |-> NoError,
              loginChecks |-> IF fresh THEN loop.performed ELSE 0]

\* A session start that marks the session as started only once the login
\* check has passed.
ensureSessionStartedOnLogin(ss, initialized, running, launchOk, navOk, checks, projOutcome) ==
    LET same == [ss |-> ss, initialized |-> initialized, running |-> running,
                 thrown |-> NoError, loginChecks |-> 0]
        loop == loginLoopFrom(checks, 1)
        logged == [ss EXCEPT !.isLoggedIn = loop.isLoggedIn]
    IN  IF initialized /\ running THEN same
        ELSE IF ~launchOk THEN [same EXCEPT !.thrown = Err("LaunchFailed")]
        ELSE IF ~navOk
             THEN [same EXCEPT !.running = TRUE, !.thrown = Err("NavigationFailed")]
        ELSE IF ~loop.isLoggedIn
             THEN [ss |-> logged, initialized |-> initialized, running |-> TRUE,
                   thrown |-> Err("NotLoggedIn"), loginChecks |-> loop.performed]
        ELSE [ss |-> IF DefaultProject # NULL /\ logged.currentProjectUrl = NULL
                     THEN selectProject(logged, DefaultProject, projOutcome).ss
                     ELSE logged,
              initialized |-> TRUE, running |-> TRUE, thrown |-> NoError,
              loginChecks |-> loop.performed]

\* ensureSession (lines 44-87). launchOk: launchBrowser returned; navOk: what
\* navigateTo returned; checks: what the login checks return, in order;
\* projOutcome: what selecting the default project does.
ensureSession(ss, initialized, running, launchOk, navOk, checks, projOutcome) ==
    LET same == [ss |-> ss, initialized |-> initialized, running |-> running,
                 thrown |-> NoError, loginChecks |-> 0]
        loop == loginLoopFrom(checks, 1)
        logged == [ss EXCEPT !.isLoggedIn = loop.isLoggedIn]
    IN  IF initialized /\ running THEN same
        ELSE IF ~launchOk THEN [same EXCEPT !.thrown = Err("LaunchFailed")]
        ELSE IF ~navOk
             THEN [same EXCEPT !.running = TRUE, !.thrown = Err("NavigationFailed")]
        ELSE IF ~loop.isLoggedIn
             THEN [ss |-> logged, initialized |-> TRUE, running |-> TRUE,
                   thrown |-> Err("NotLoggedIn"), loginChecks |-> loop.performed]
        ELSE [ss |-> IF DefaultProject # NULL /\ logged.currentProjectUrl = NULL
                     THEN selectProject(logged, DefaultProject, projOutcome).ss
                     ELSE logged,
              initialized |-> TRUE, running |-> TRUE, thrown |-> NoError,
              loginChecks |-> loop.performed]

LoginChecks == [1..LOGIN_ATTEMPTS -> BOOLEAN]

\* Most ensureSession entries followed along one chain of nested calls.
MaxDepth == 3

\* runs[d]: what the d-th ensureSession of a chain meets. running: what
\* isBrowserRunning() answers at line 45; startOk: launchBrowser, navigateTo and
\* the login checks all succeed (lines 49-76).
SessionRuns == [1..MaxDepth -> [running : BOOLEAN, startOk : BOOLEAN]]

\* The chain has made its last entry: no selectProject, one ensureSession.
ChainEnds == [selections |-> 0, entries |-> 1, cut |-> FALSE]

RECURSIVE ensureSessionChainLateFlag(_, _, _, _)

\* A session start that sets sessionInitialized only after the default project
\* was selected: the nested call sees the flag as the outer call found it.
ensureSessionChainLateFlag(initialized, projectSet, runs, d) ==
    IF d > Len(runs) THEN [selections |-> 0, entries |-> 0, cut |-> TRUE]
    ELSE IF initialized /\ runs[d].running THEN ChainEnds
    ELSE IF ~runs[d].startOk THEN ChainEnds
    ELSE IF DefaultProject = NULL \/ projectSet THEN ChainEnds
    ELSE LET inner == ensureSessionChainLateFlag(initialized, projectSet, runs, d + 1)
         IN  [selections |-> 1 + inner.selections, entries |-> 1 + inner.entries,
              cut |-> inner.cut]

RECURSIVE ensureSessionChain(_, _, _, _)

\* ensureSession (lines 44-87) with the ensureSession that selectProject calls
\* first (lines 567-570), from the d-th entry of the chain on. initialized:
\* sessionInitialized at the entry; projectSet: currentProjectUrl is set, which
\* no step before the nested call changes. selections: selectProject calls
\* made; entries: ensureSession calls made; cut: the chain goes on past
\* MaxDepth entries. A nested call that throws is caught by selectProject
\* (line 614) and ends the chain as one that returns.
ensureSessionChain(initialized, projectSet, runs, d) ==
    IF d > Len(runs) THEN [selections |-> 0, entries |-> 0, cut |-> TRUE]
    ELSE IF initialized /\ runs[d].running THEN ChainEnds
    ELSE IF ~runs[d].startOk THEN ChainEnds
    ELSE IF DefaultProject = NULL \/ projectSet THEN ChainEnds
    ELSE LET inner == ensureSessionChain(TRUE, projectSet, runs, d + 1)
         IN  [selections |-> 1 + inner.selections, entries |-> 1 + inner.entries,
              cut |-> inner.cut]

\* called .. thrown: an ensureSession call as EnsureSession makes it;
\* chained .. chain: an ensureSession call followed through its nested calls.
NoLogin ==
    [called |-> FALSE, started |-> FALSE, checks |-> <<FALSE, FALSE, FALSE>>,
     performed |-> 0, thrown |-> NoError, chained |-> FALSE, initialized |-> FALSE,
     projectSet |-> FALSE, runs |-> <<>>, chain |-> ChainEnds]

\* ------------------------------------------------- the three blocking operations

Ops == {"ask", "reply", "upload"}

Tools == {"selectProject", "newConversation"}

\* Smallest timeout_minutes the tool schema lets through.
MinTimeoutMinutes == 1

OpLocalsReset ==
    /\ exc' = NoError
    /\ result' = NoResult
    /\ delivery' = "none"
    /\ now' = 0
    /\ startTime' = 0
    /\ deadline' = 0
    /\ pollCount' = 0
    /\ lastContentLength' = 0
    /\ stableCount' = 0
    /\ det' = NoDet
    /\ pollRet' = NoPollRet
    /\ finalText' = NULL
    /\ lastWaitMs' = 0
    /\ sent' = 0
    /\ typed' = FALSE
    /\ markerSeen' = FALSE
    /\ thinkingHist' = "none"
    /\ sameRun' = 0
    /\ scen' = -1
    /\ urlRead' = FALSE
    /\ extracts' = 0

\* A tool call arrives (index.ts handlers): the operation starts.
Call ==
    /\ pc \in {"idle", "done"}
    /\ \E op \in Ops \cup Tools :
         \E model \in ModelNames \cup {NULL} :
           call' = [op |-> op, timeoutMinutes |-> MinTimeoutMinutes,
                    model |-> IF op = "ask" THEN model ELSE NULL]
    /\ OpLocalsReset
    /\ simple' = IF call'.op \in Tools
                 THEN [NoSimple EXCEPT !.projectBefore = sessionState.currentProjectUrl]
                 ELSE NoSimple
    /\ pc' = "ensure"
    /\ UNCHANGED <<fnObs, sel, located, sessionVars, page, monitoring>>

AfterEnsure(op) ==
    CASE op = "ask" -> "project"
      [] op = "reply" -> "send"
      [] op = "upload" -> "attach"
      [] OTHER -> op

\* await ensureSession() at the head of each operation's try block.
EnsureSession ==
    /\ pc = "ensure"
    /\ \E launchOk \in BOOLEAN, navOk \in BOOLEAN, checks \in LoginChecks,
          projOutcome \in SelectProjectOutcomes :
         LET r == ensureSession(sessionState, sessionInitialized, browserRunning,
                                launchOk, navOk, checks, projOutcome)
         IN  /\ sessionState' = r.ss
             /\ sessionInitialized' = r.initialized
             /\ browserRunning' = r.running
             /\ exc' = r.thrown
             /\ pc' = IF r.thrown = NoError THEN AfterEnsure(call.op)
                      ELSE IF call.op \in Tools THEN "toolCatch"
                      ELSE "catch"
             /\ login' = IF monitoring
                          THEN [NoLogin EXCEPT
                                  !.called = TRUE,
                                  !.started = ~(sessionInitialized /\ browserRunning)
                                                  /\ launchOk /\ navOk,
                                  !.checks = checks, !.performed = r.loginChecks,
                                  !.thrown = r.thrown]
                          ELSE login
    /\ UNCHANGED <<extracted, cleaned, asked, scan, browser, callers, sending, auxObs, call,
                   result, delivery, now, pollLocals, pollRet, pollObs, sent, typed>>

\* blockingAsk lines 669-689: the optional project switch; a failed switch
\* returns an error result at once.
AskProject ==
    /\ pc = "project"
    /\ \E project \in Projects \cup {NULL}, urlInProject \in BOOLEAN,
          outcome \in SelectProjectOutcomes :
         LET needsProjectSwitch ==
                 sessionState.currentProjectUrl = NULL \/ ~urlInProject
             r == selectProject(sessionState, project, outcome)
         IN  /\ asked' = IF monitoring THEN project ELSE asked
             /\ IF project # NULL /\ needsProjectSwitch
                THEN /\ sessionState' = r.ss
                     /\ IF r.success
                        THEN /\ pc' = "model"
                             /\ UNCHANGED <<result, delivery>>
                        ELSE /\ result' = ErrorResult(r.message)
                             /\ delivery' = "returned"
                             /\ pc' = "done"
                ELSE /\ pc' = "model"
                     /\ UNCHANGED <<sessionState, result, delivery>>
    /\ UNCHANGED <<extracted, cleaned, login, scan, browser, callers, sending, auxObs,
                   sessionInitialized, browserRunning, call, exc, now, pollLocals,
                   pollRet, pollObs, sent, typed>>

\* blockingAsk lines 691-705: the optional model switch inside its own try.
AskModel ==
    /\ pc = "model"
    /\ \E m \in Menus :
         LET r == selectModel(sessionState, call.model, m)
         IN  IF call.model # NULL
             THEN /\ sessionState' = r.ss
                  /\ sel' = IF monitoring
                            THEN [called |-> TRUE, modelName |-> call.model, menu |-> m,
                                  before |-> sessionState.currentModel,
                                  after |-> r.ss.currentModel,
                                  returned |-> r.returned, thrown |-> r.thrown,
                                  clicks |-> r.clicks, escapes |-> r.escapes]
                            ELSE sel
                  /\ IF r.thrown = NoError
                     THEN /\ pc' = "send"
                          /\ UNCHANGED <<result, delivery>>
                     ELSE /\ result' = ErrorResult([r.thrown EXCEPT
                                           !.kind = "ModelSelectionFailed"])
                          /\ delivery' = "returned"
                          /\ pc' = "done"
             ELSE /\ pc' = "send"
                  /\ UNCHANGED <<sessionState, sel, result, delivery>>
    /\ UNCHANGED <<fnObs, simple, urlRead, extracts, located, sessionInitialized,
                   browserRunning, call, exc, now, pollLocals, pollRet, pollObs,
                   sent, typed>>

\* Lines 315-321 and 818-823: the conversation id read from the URL, kept when
\* the URL holds none.
CaptureConversationId(ss, urlChat) ==
    IF urlChat # NULL THEN [ss EXCEPT !.conversationId = urlChat] ELSE ss

TYPE_TO_SEND_MS == 500

SEND_TO_URL_MS == 1000

\* A sendPromptText that goes on to send when the prompt input was not found.
SendPromptIgnoresMissingInput ==
    /\ pc = "send"
    /\ \E textareaFound \in BOOLEAN, urlChat \in ChatIds \cup {NULL} :
         /\ typed' = textareaFound
         /\ sent' = sent + 1
         /\ now' = now + TYPE_TO_SEND_MS + SEND_TO_URL_MS
         /\ sessionState' = CaptureConversationId(sessionState, urlChat)
         /\ urlRead' = TRUE
         /\ pc' = "pollStart"
    /\ UNCHANGED <<fnObs, simple, sel, extracts, located, sessionInitialized,
                   browserRunning, call, exc, result, delivery, pollLocals, pollRet,
                   pollObs>>

\* sendPromptText (lines 299-322), called by blockingAsk and blockingReply.
\* textareaFound: typeText found the prompt input; sendFound: clickElement found
\* the send control (Enter is pressed otherwise).
\* The page actions on the controls found are taken to go through here;
\* SendPromptText below takes the call apart with actions that fail.
SendPrompt ==
    /\ pc = "send"
    /\ \E textareaFound \in BOOLEAN, sendFound \in BOOLEAN, urlChat \in ChatIds \cup {NULL} :
         IF ~textareaFound
         THEN /\ exc' = Err("PromptInputNotFound")
              /\ pc' = "catch"
              /\ UNCHANGED <<sessionState, now, sent, typed, urlRead>>
         ELSE /\ typed' = TRUE
              /\ sent' = sent + 1
              /\ now' = now + TYPE_TO_SEND_MS + SEND_TO_URL_MS
              /\ sessionState' = CaptureConversationId(sessionState, urlChat)
              /\ urlRead' = TRUE
              /\ pc' = "pollStart"
              /\ UNCHANGED exc
    /\ UNCHANGED <<fnObs, simple, sel, extracts, located, sessionInitialized,
                   browserRunning, call, result, delivery, pollLocals, pollRet,
                   pollObs>>

UPLOAD_SETTLE_MS == 3000

\* uploadFiles lines 784-823. attachFound: the attach button was clicked;
\* chooserOk: the file chooser came up and took the files; withPrompt: a prompt
\* was passed; textareaFound, sendFound, urlChat as in SendPrompt.
UploadSend ==
    /\ pc = "attach"
    /\ \E attachFound \in BOOLEAN, chooserOk \in BOOLEAN, withPrompt \in BOOLEAN,
          textareaFound \in BOOLEAN, sendFound \in BOOLEAN,
          urlChat \in ChatIds \cup {NULL} :
         IF ~attachFound \/ ~chooserOk \/ (withPrompt /\ ~textareaFound)
         THEN /\ exc' = IF ~attachFound THEN Err("AttachButtonNotFound")
                        ELSE IF ~chooserOk THEN Err("FileChooserFailed")
                        ELSE Err("PromptInputNotFound")
              /\ pc' = "catch"
              /\ UNCHANGED <<sessionState, now, sent, typed, urlRead>>
         ELSE /\ typed' = withPrompt
              /\ sent' = sent + 1
              /\ now' = now + UPLOAD_SETTLE_MS + TYPE_TO_SEND_MS + SEND_TO_URL_MS
              /\ sessionState' = CaptureConversationId(sessionState, urlChat)
              /\ urlRead' = TRUE
              /\ pc' = "pollStart"
              /\ UNCHANGED exc
    /\ UNCHANGED <<fnObs, simple, sel, extracts, located, sessionInitialized,
                   browserRunning, call, result, delivery, pollLocals, pollRet,
                   pollObs>>

\* Lines 713-719, 751-757, 828-834: the result built from what the poll returned.
OpReturn ==
    /\ pc = "return"
    /\ result' = SuccessResult(pollRet, sessionState)
    /\ delivery' = "returned"
    /\ pc' = "done"
    /\ UNCHANGED <<fnObs, auxObs, sessionVars, call, exc, now, pollLocals, pollRet, pollObs,
                   sent, typed>>

\* A catch block that reports the polls made before the failure.
OpCatchReportsPolls ==
    /\ pc = "catch"
    /\ result' = [ErrorResult(exc) EXCEPT !.poll_count = pollCount]
    /\ delivery' = "returned"
    /\ pc' = "done"
    /\ UNCHANGED <<fnObs, auxObs, sessionVars, call, exc, now, pollLocals, pollRet, pollObs,
                   sent, typed>>

\* A catch block that lets a Timeout through to the caller.
OpCatchRethrowsTimeout ==
    /\ pc = "catch"
    /\ IF exc.kind = "Timeout"
       THEN /\ delivery' = "thrown"
            /\ UNCHANGED result
       ELSE /\ result' = ErrorResult(exc)
            /\ delivery' = "returned"
    /\ pc' = "done"
    /\ UNCHANGED <<fnObs, auxObs, sessionVars, call, exc, now, pollLocals, pollRet, pollObs,
                   sent, typed>>

\* A catch block that also forgets the conversation.
OpCatchClearsConversation ==
    /\ pc = "catch"
    /\ result' = ErrorResult(exc)
    /\ delivery' = "returned"
    /\ sessionState' = [sessionState EXCEPT !.conversationId = NULL]
    /\ pc' = "done"
    /\ UNCHANGED <<fnObs, auxObs, sessionInitialized, browserRunning, call, exc, now,
                   pollLocals, pollRet, pollObs, sent, typed>>

\* Lines 720-729, 758-767, 835-844: the catch block of each operation.
OpCatch ==
    /\ pc = "catch"
    /\ result' = ErrorResult(exc)
    /\ delivery' = "returned"
    /\ pc' = "done"
    /\ UNCHANGED <<fnObs, auxObs, sessionVars, call, exc, now, pollLocals, pollRet, pollObs,
                   sent, typed>>

\* ------------------------------------- the tools selectProject and newConversation

\* CONFIG.chatgptUrl.
HomeUrl == "https://chatgpt.com"

\* selectProject (lines 567-620) called as the chatgpt_select_project tool, after
\* its ensureSession.
SelectProject ==
    /\ pc = "selectProject"
    /\ \E projectName \in Projects, outcome \in SelectProjectOutcomes :
         LET r == selectProject(sessionState, projectName, outcome)
         IN  /\ sessionState' = r.ss
             /\ simple' = SimpleResult(r.success, r.message,
                                       IF r.success THEN ProjectUrl(projectName)
                                       ELSE NULL)
    /\ pc' = "done"
    /\ UNCHANGED <<fnObs, sel, urlRead, extracts, located, sessionInitialized, browserRunning,
                   call, exc, result, delivery, now, pollLocals, pollRet, pollObs,
                   sent, typed>>

\* A newConversation that reports a failed navigation and keeps the
\* conversation id then.
NewConversationChecksNavigation ==
    /\ pc = "newConversation"
    /\ \E navOk \in BOOLEAN :
         LET target == IF sessionState.currentProjectUrl # NULL
                       THEN sessionState.currentProjectUrl
                       ELSE HomeUrl
         IN  /\ sessionState' = IF navOk THEN [sessionState EXCEPT !.conversationId = NULL]
                                ELSE sessionState
             /\ simple' = [SimpleResult(navOk,
                                        IF navOk THEN NoError
                                        ELSE Err("NewConversationFailed"),
                                        target)
                             EXCEPT !.navOk = IF monitoring THEN navOk ELSE TRUE]
    /\ pc' = "done"
    /\ UNCHANGED <<fnObs, sel, urlRead, extracts, located, sessionInitialized, browserRunning,
                   call, exc, result, delivery, now, pollLocals, pollRet, pollObs,
                   sent, typed>>

\* newConversation (lines 634-644), the chatgpt_new_chat tool, after its
\* ensureSession. navOk: what navigateTo returns (line 635, browser.ts lines
\* 91-100); the code does not look at it.
NewConversation ==
    /\ pc = "newConversation"
    /\ \E navOk \in BOOLEAN :
         /\ sessionState' = [sessionState EXCEPT !.conversationId = NULL]
         /\ simple' = [SimpleResult(TRUE, NoError,
                                    IF sessionState.currentProjectUrl # NULL
                                    THEN sessionState.currentProjectUrl
                                    ELSE HomeUrl)
                         EXCEPT !.navOk = IF monitoring THEN navOk ELSE TRUE]
    /\ pc' = "done"
    /\ UNCHANGED <<fnObs, sel, urlRead, extracts, located, sessionInitialized, browserRunning,
                   call, exc, result, delivery, now, pollLocals, pollRet, pollObs,
                   sent, typed>>

\* The catch blocks of the two tools (lines 614-619, 645-650).
ToolCatch ==
    /\ pc = "toolCatch"
    /\ simple' = SimpleResult(FALSE,
                              IF call.op = "selectProject"
                              THEN Err("ProjectSelectFailed")
                              ELSE Err("NewConversationFailed"),
                              NULL)
    /\ pc' = "done"
    /\ UNCHANGED <<fnObs, sel, urlRead, extracts, located, sessionVars, call, exc, result,
                   delivery, now, pollLocals, pollRet, pollObs, sent, typed>>

\* ------------------------------------------ findElement (browser.ts lines 105-120)

\* Longest selector list a call is drawn with.
MaxSelectors == 4

Elements == {"e1", "e2"}

NoElement == "none"

\* A candidate whose query fails outright (the promise rejects for a reason
\* other than the wait running out).
QueryFailed == "failed"

\* matches[i]: the visible element candidate i resolves to within its wait,
\* NoElement when the wait runs out (for elementExists: when the query finds
\* nothing), QueryFailed when the query fails.
SelectorMatches ==
    UNION {[1..n -> Elements \cup {NoElement, QueryFailed}] : n \in 0..MaxSelectors}

RECURSIVE findElementFromRethrows(_, _)

\* A locator that lets the failure of a candidate's query out instead of going
\* on to the next candidate.
findElementFromRethrows(matches, i) ==
    IF i > Len(matches) THEN NoElement
    ELSE IF matches[i] \in Elements \cup {QueryFailed} THEN matches[i]
    ELSE findElementFromRethrows(matches, i + 1)

RECURSIVE findElementFrom(_, _)

\* The loop of lines 108-117 from candidate i on; null once the list is used up.
findElementFrom(matches, i) ==
    IF i > Len(matches) THEN NoElement
    ELSE IF matches[i] \in Elements THEN matches[i]
    ELSE findElementFrom(matches, i + 1)

\* A locator that keeps looking and returns the last candidate that matched.
findElementLast(matches) ==
    LET hits == {i \in 1..Len(matches) : matches[i] \in Elements}
    IN  IF hits = {} THEN NoElement
        ELSE matches[CHOOSE i \in hits : \A j \in hits : i >= j]

findElement(matches) == findElementFrom(matches, 1)

\* The timeout parameter's default (line 105); getElementText passes 10000
\* (line 178).
DEFAULT_FIND_TIMEOUT_MS == 5000

FindTimeouts == {DEFAULT_FIND_TIMEOUT_MS, 2 * DEFAULT_FIND_TIMEOUT_MS}

RECURSIVE findElementWaitedFrom(_, _, _)

\* Milliseconds the loop of lines 108-117 spends from candidate i on: line 110
\* hands the whole timeout to each candidate's waitForSelector, which gives up
\* only when that time has run out; a candidate that is visible resolves at
\* once and ends the loop.
findElementWaitedFrom(matches, timeout, i) ==
    IF i > Len(matches) THEN 0
    ELSE IF matches[i] \in Elements THEN 0
    ELSE IF matches[i] = QueryFailed
         THEN findElementWaitedFrom(matches, timeout, i + 1)
    ELSE timeout + findElementWaitedFrom(matches, timeout, i + 1)

findElementWaited(matches, timeout) == findElementWaitedFrom(matches, timeout, 1)

RECURSIVE elementExistsFrom(_, _)

\* elementExists (lines 125-140), the loop from candidate i on.
elementExistsFrom(matches, i) ==
    IF i > Len(matches) THEN FALSE
    ELSE IF matches[i] \in Elements THEN TRUE
    ELSE elementExistsFrom(matches, i + 1)

elementExists(matches) == elementExistsFrom(matches, 1)

\* called, returned, waited: a findElement call; probed, exists: an
\* elementExists call.
NoLocated ==
    [called |-> FALSE, matches |-> <<>>, timeout |-> DEFAULT_FIND_TIMEOUT_MS,
     returned |-> NoElement, waited |-> 0, probed |-> FALSE, exists |-> FALSE]

\* ---------------------------- getLatestResponseText in full (lines 116-207)

\* Lines 122-134, in the order of the list.
phrasesToRemove ==
    <<Chars("ChatGPT said:"), Chars("ChatGPT said"), Chars("Pro thinking"),
      Chars("Answer now"), Chars("Extended thinking"), Chars("Show thinking"),
      Chars("Hide thinking"), Chars("Reasoning"), Chars("Thinking..."),
      Chars("Thinking<u2026>"), Chars("<u2022> ")>>

\* cleaned.replace(phrase, '') of line 140: the first occurrence goes.
removeFirst(cs, part) ==
    LET i == indexOf(cs, part)
    IN  IF i < 0 THEN cs
        ELSE SubSeq(cs, 1, i) \o SubSeq(cs, i + Len(part) + 1, Len(cs))

RECURSIVE removeWhileIncluded(_, _)

\* The while loop of lines 139-141.
removeWhileIncluded(cs, part) ==
    IF includes(cs, part) THEN removeWhileIncluded(removeFirst(cs, part), part)
    ELSE cs

RECURSIVE removePhrasesFrom(_, _)

\* The for loop of lines 138-142 from phrase k on: each phrase is dealt with
\* once, in list order, and not looked at again.
removePhrasesFrom(cs, k) ==
    IF k > Len(phrasesToRemove) THEN cs
    ELSE removePhrasesFrom(removeWhileIncluded(cs, phrasesToRemove[k]), k + 1)

\* First position from i on that holds no white space, Len(cs) + 1 if none.
skipWhiteSpace(cs, i) ==
    LET rest == {j \in i..Len(cs) : cs[j] \notin WhiteSpace}
    IN  IF rest = {} THEN Len(cs) + 1 ELSE CHOOSE j \in rest : \A k \in rest : j <= k

\* replace(/^Thinking\s*/i, '') of line 144: one leading word, once.
stripLeadingThinking(cs) ==
    IF startsWith(toLowerCase(cs), Chars("thinking"))
    THEN SubSeq(cs, skipWhiteSpace(cs, Len(Chars("thinking")) + 1), Len(cs))
    ELSE cs

\* Where a match of /Pro\s+thinking\s*\u2022?\s*/i that starts at position i
\* ends (the position after it); 0 if none starts there.
proThinkingEnd(cs, i) ==
    LET lc == toLowerCase(cs)
        afterPro == i + Len(Chars("pro"))
        afterGap == skipWhiteSpace(cs, afterPro)
        afterWord == afterGap + Len(Chars("thinking"))
        bulletAt == skipWhiteSpace(cs, afterWord)
        afterBullet == IF bulletAt <= Len(cs) /\ cs[bulletAt] = "<u2022>"
                       THEN bulletAt + 1 ELSE bulletAt
    IN  IF /\ afterPro - 1 <= Len(cs)
           /\ SubSeq(lc, i, afterPro - 1) = Chars("pro")
           /\ afterGap > afterPro
           /\ afterWord - 1 <= Len(cs)
           /\ SubSeq(lc, afterGap, afterWord - 1) = Chars("thinking")
        THEN skipWhiteSpace(cs, afterBullet)
        ELSE 0

RECURSIVE stripProThinking(_)

\* The global replace of line 145: every match goes, left to right, and what
\* the removals join is not looked at again.
stripProThinking(cs) ==
    LET starts == {i \in 1..Len(cs) : proThinkingEnd(cs, i) > 0}
    IN  IF starts = {} THEN cs
        ELSE LET i == CHOOSE a \in starts : \A b \in starts : a <= b
             IN  SubSeq(cs, 1, i - 1)
                     \o stripProThinking(SubSeq(cs, proThinkingEnd(cs, i), Len(cs)))

Digits == {"0", "1", "2", "3", "4", "5", "6", "7", "8", "9"}

\* replace(/^\d+\s*(seconds?|secs?)\s*/i, '') of line 147: one leading timing
\* indicator, once.
stripLeadingTiming(cs) ==
    LET lc == toLowerCase(cs)
        others == {j \in 1..Len(cs) : cs[j] \notin Digits}
        afterDigits == IF others = {} THEN Len(cs) + 1
                       ELSE CHOOSE j \in others : \A k \in others : j <= k
        unitAt == skipWhiteSpace(cs, afterDigits)
        unit == SubSeq(lc, unitAt, Len(cs))
        unitLen == IF startsWith(unit, <<"s", "e", "c", "o", "n", "d">>) THEN 6
                   ELSE IF startsWith(unit, <<"s", "e", "c">>) THEN 3
                   ELSE 0
        afterUnit == unitAt + unitLen
        afterPlural == IF afterUnit <= Len(cs) /\ lc[afterUnit] = "s"
                       THEN afterUnit + 1 ELSE afterUnit
    IN  IF afterDigits > 1 /\ unitLen > 0
        THEN SubSeq(cs, skipWhiteSpace(cs, afterPlural), Len(cs))
        ELSE cs

RECURSIVE collapseWhiteSpace(_)

\* replace(/\s+/g, ' ') of line 148.
collapseWhiteSpace(cs) ==
    IF cs = <<>> THEN <<>>
    ELSE IF Head(cs) \in WhiteSpace
         THEN <<" ">> \o collapseWhiteSpace(SubSeq(cs, skipWhiteSpace(cs, 1), Len(cs)))
         ELSE <<Head(cs)>> \o collapseWhiteSpace(Tail(cs))

\* Lines 136-150.
cleanText(text) ==
    trim(collapseWhiteSpace(stripLeadingTiming(stripProThinking(
        stripLeadingThinking(removePhrasesFrom(text, 1))))))

\* Longest text, in pieces, cleanText is applied to.
MaxTokens == 3

\* The pieces the texts are put together from: chrome phrases whole and in
\* halves, the words the regular expressions look for, and plain content.
CleanTokens ==
    {"Answer ", "now", "Reasoning", "Thinking", " ", "hello", "15 seconds ", "Pro ",
     "thinking"}

RECURSIVE Concat(_)

Concat(tokens) ==
    IF tokens = <<>> THEN <<>> ELSE Chars(Head(tokens)) \o Concat(Tail(tokens))

CleanInputs == {Concat(t) : t \in UNION {[1..n -> CleanTokens] : n \in 0..MaxTokens}}

NoCleaned == [called |-> FALSE, input |-> <<>>, once |-> <<>>, twice |-> <<>>]

\* What getLatestResponseText hands back: null, or a text.
NullText == [isNull |-> TRUE, text |-> <<>>]

TextOf(cs) == [isNull |-> FALSE, text |-> cs]

\* What a strategy reads, trimmed as lines 160, 178, 188 and 196 trim it; ""
\* also when there is nothing to read from (no markdown region, no assistant
\* message).
RawTexts == {"", "hello", "Thinking...", "ChatGPT said:hello"}

\* Lines 116-207 on a page with so many turns, where strategy k reads raw[k];
\* throws: page.evaluate rejects (line 203).
getLatestResponseTextOf(turns, raw, throws) ==
    LET cleanedOf(k) == cleanText(Chars(raw[k]))
    IN  IF throws THEN NullText
        ELSE IF turns < 2 THEN NullText
        ELSE IF raw[1] # "" /\ Len(cleanedOf(1)) > 0 THEN TextOf(cleanedOf(1))
        ELSE IF raw[2] # "" /\ Len(cleanedOf(2)) > 0 THEN TextOf(cleanedOf(2))
        ELSE IF raw[3] # "" THEN TextOf(cleanedOf(3))
        ELSE IF raw[4] # "" THEN TextOf(cleanedOf(4))
        ELSE NullText

NoExtracted ==
    [called |-> FALSE, turns |-> 0, raw |-> <<"", "", "", "">>, throws |-> FALSE,
     returned |-> NullText]

\* ------------------------------------------------------------- specifications

\* ------------------------------- getPage and launchBrowser (browser.ts 27-67)

\* Most tool calls in flight at once.
MaxCallers == 3

Callers == 1..MaxCallers

\* No context yet (let context = null, let page = null).
NoContext == 0

\* context and page: the context the module variable of line 8 refers to and
\* the context whose page the variable of line 9 refers to; live: the contexts
\* launched and not closed. A context is named after the call that launched it.
NoBrowser == [context |-> NoContext, page |-> NoContext, live |-> {}]

NoCallers == <<>>

\* No single call observed yet, no browser launched, no concurrent caller.
\* The candidates of the prompt input and of the send control: each is on the
\* page or is not.
ControlMatches == UNION {[1..n -> {"e1", NoElement}] : n \in 0..MaxSelectors}

\* A sendPromptText that treats a missing send control as a failure.
sendPromptTextNoEnter(inputMatches, sendMatches, typeOk, clickOk, enterOk, urlChat) ==
    LET failed(kind, wasTyped) ==
            [thrown |-> kind, typed |-> wasTyped, clicks |-> 0, enters |-> 0,
             urlChat |-> NULL]
    IN  IF findElement(inputMatches) = NoElement THEN failed("PromptInputNotFound", FALSE)
        ELSE IF ~typeOk THEN failed("PageActionFailed", FALSE)
        ELSE IF findElement(sendMatches) = NoElement
             THEN failed("SendControlNotFound", TRUE)
        ELSE IF ~clickOk THEN failed("PageActionFailed", TRUE)
        ELSE [thrown |-> "none", typed |-> TRUE, clicks |-> 1, enters |-> 0,
              urlChat |-> urlChat]

\* sendPromptText (lines 299-322) with typeText and clickElement (browser.ts
\* lines 145-172) step by step. inputMatches, sendMatches: what findElement
\* meets for SELECTORS.promptTextarea and SELECTORS.sendButton; typeOk: the
\* click, fill and type on the input go through (lines 151-156); clickOk: the
\* click on the send control goes through (line 170); enterOk: the key press
\* goes through (lines 309-310). None of these calls is in a try.
\* thrown: the failure that leaves the function ("none": it returns); clicks,
\* enters: the send actions that went through; urlChat: the id it captured.
sendPromptText(inputMatches, sendMatches, typeOk, clickOk, enterOk, urlChat) ==
    LET failed(kind, wasTyped) ==
            [thrown |-> kind, typed |-> wasTyped, clicks |-> 0, enters |-> 0,
             urlChat |-> NULL]
    IN  IF findElement(inputMatches) = NoElement THEN failed("PromptInputNotFound", FALSE)
        ELSE IF ~typeOk THEN failed("PageActionFailed", FALSE)
        ELSE IF findElement(sendMatches) # NoElement
             THEN IF clickOk
                  THEN [thrown |-> "none", typed |-> TRUE, clicks |-> 1, enters |-> 0,
                        urlChat |-> urlChat]
                  ELSE failed("PageActionFailed", TRUE)
        ELSE IF enterOk
             THEN [thrown |-> "none", typed |-> TRUE, clicks |-> 0, enters |-> 1,
                   urlChat |-> urlChat]
        ELSE failed("PageActionFailed", TRUE)

NoSending ==
    [called |-> FALSE, inputMatches |-> <<>>, sendMatches |-> <<>>, typeOk |-> TRUE,
     clickOk |-> TRUE, enterOk |-> TRUE, urlChat |-> NULL,
     did |-> [thrown |-> "none", typed |-> FALSE, clicks |-> 0, enters |-> 0,
              urlChat |-> NULL]]

FnObsAtRest ==
    /\ sending = NoSending
    /\ extracted = NoExtracted
    /\ cleaned = NoCleaned
    /\ asked = NULL
    /\ login = NoLogin
    /\ scan = NoScan
    /\ browser = NoBrowser
    /\ callers = NoCallers
    /\ sending = NoSending


\* After construction: no session, no browser, no operation in flight.
Init ==
    /\ sessionState = InitialSessionState
    /\ sessionInitialized = FALSE
    /\ browserRunning = FALSE
    /\ pc = "idle"
    /\ call = [op |-> "reply", timeoutMinutes |-> MinTimeoutMinutes, model |-> NULL]
    /\ exc = NoError
    /\ result = NoResult
    /\ delivery = "none"
    /\ now = 0
    /\ startTime = 0
    /\ deadline = 0
    /\ pollCount = 0
    /\ lastContentLength = 0
    /\ stableCount = 0
    /\ det = NoDet
    /\ pollRet = NoPollRet
    /\ page = NoPage
    /\ finalText = NULL
    /\ lastWaitMs = 0
    /\ sent = 0
    /\ typed = FALSE
    /\ markerSeen = FALSE
    /\ thinkingHist = "none"
    /\ sameRun = 0
    /\ scen = -1
    /\ monitoring = FALSE
    /\ simple = NoSimple
    /\ sel = NoSel
    /\ urlRead = FALSE
    /\ extracts = 0
    /\ located = NoLocated
    /\ FnObsAtRest

Next ==
    \/ Call
    \/ EnsureSession
    \/ AskProject
    \/ AskModel
    \/ SendPrompt
    \/ UploadSend
    \/ PollStart
    \/ PollIteration
    \/ PollIterationThrows
    \/ FinalExtract
    \/ PollTimeout
    \/ OpReturn
    \/ OpCatch
    \/ SelectProject
    \/ NewConversation
    \/ ToolCatch

Spec == Init /\ [][Next]_vars

\* The poll loop of one blockingReply, from the entry of pollUntilComplete: the
\* session has started (default project selected), the prompt was typed and
\* sent and the URL showed a conversation id. The history monitors record.
TimeoutChoices == {MinTimeoutMinutes, MaxTimeoutMinutes}

PollEntrySession ==
    [isLoggedIn |-> TRUE, currentModel |-> NULL, conversationId |-> "c-1",
     currentProjectUrl |-> ProjectUrl(DefaultProject)]

InitPollWith(timeouts) ==
    /\ sessionState = PollEntrySession
    /\ sessionInitialized = TRUE
    /\ browserRunning = TRUE
    /\ pc = "pollStart"
    /\ call \in [op : {"reply"}, timeoutMinutes : timeouts, model : {NULL}]
    /\ exc = NoError
    /\ result = NoResult
    /\ delivery = "none"
    /\ now = TYPE_TO_SEND_MS + SEND_TO_URL_MS
    /\ startTime = 0
    /\ deadline = 0
    /\ pollCount = 0
    /\ lastContentLength = 0
    /\ stableCount = 0
    /\ det = NoDet
    /\ pollRet = NoPollRet
    /\ page = NoPage
    /\ finalText = NULL
    /\ lastWaitMs = 0
    /\ sent = 1
    /\ typed = TRUE
    /\ markerSeen = FALSE
    /\ thinkingHist = "none"
    /\ sameRun = 0
    /\ scen = 0
    /\ monitoring = TRUE
    /\ simple = NoSimple
    /\ sel = NoSel
    /\ urlRead = TRUE
    /\ extracts = 0
    /\ located = NoLocated
    /\ FnObsAtRest

InitPoll == InitPollWith(TimeoutChoices)

NextPoll ==
    \/ PollStart
    \/ PollIteration
    \/ PollIterationThrows
    \/ FinalExtract
    \/ PollTimeout
    \/ OpReturn
    \/ OpCatch

SpecPoll == InitPoll /\ [][NextPoll]_vars

\* One call of isGenerationComplete on any page, with the lastContentLength and
\* stableCount the poll loop can hold when it calls (a positive stableCount
\* comes with the nonzero length it counted).
MaxStableCount == 11

ContentLengths == {0} \cup {Len(t) : t \in Texts}

InitDetect ==
    /\ sessionState = PollEntrySession
    /\ sessionInitialized = TRUE
    /\ browserRunning = TRUE
    /\ pc = "detect"
    /\ call = [op |-> "reply", timeoutMinutes |-> MinTimeoutMinutes, model |-> NULL]
    /\ exc = NoError
    /\ result = NoResult
    /\ delivery = "none"
    /\ now = 0
    /\ startTime = 0
    /\ deadline = 0
    /\ pollCount = 0
    /\ lastContentLength \in ContentLengths
    /\ stableCount \in 0..MaxStableCount
    /\ (stableCount > 0 => lastContentLength > 0)
    /\ det = NoDet
    /\ pollRet = NoPollRet
    /\ page \in Pages
    /\ finalText = NULL
    /\ lastWaitMs = 0
    /\ sent = 1
    /\ typed = TRUE
    /\ markerSeen = FALSE
    /\ thinkingHist = "none"
    /\ sameRun = 0
    /\ scen = -1
    /\ monitoring = FALSE
    /\ simple = NoSimple
    /\ sel = NoSel
    /\ urlRead = TRUE
    /\ extracts = 0
    /\ located = NoLocated
    /\ FnObsAtRest

\* Line 346: the call itself, before the loop takes over its result.
Detect ==
    /\ pc = "detect"
    /\ det' = isGenerationComplete(page, lastContentLength, stableCount)
    /\ pc' = "detected"
    /\ UNCHANGED <<fnObs, auxObs, sessionVars, call, exc, result, delivery, now, startTime,
                   deadline, pollCount, lastContentLength, stableCount, pollRet,
                   pollObs, sent, typed>>

NextDetect == Detect

SpecDetect == InitDetect /\ [][NextDetect]_vars

\* The poll loop when every sleep and every page call returns, under the
\* scheduling of a running event loop: a step that can be taken is taken.
NextPollReturns ==
    \/ PollStart
    \/ PollIteration
    \/ FinalExtract
    \/ PollTimeout
    \/ OpReturn
    \/ OpCatch

\* The timeouts the runs to their end are started with.
FairTimeoutChoices == {MinTimeoutMinutes, MinTimeoutMinutes + 1}

InitPollFair == InitPollWith(FairTimeoutChoices)

SpecPollFair == InitPollFair /\ [][NextPollReturns]_vars /\ WF_vars(NextPollReturns)

\* Every local and observation of an operation as a new call finds them.
LocalsAtRest ==
    /\ exc = NoError
    /\ result = NoResult
    /\ delivery = "none"
    /\ now = 0
    /\ startTime = 0
    /\ deadline = 0
    /\ pollCount = 0
    /\ lastContentLength = 0
    /\ stableCount = 0
    /\ det = NoDet
    /\ pollRet = NoPollRet
    /\ page = NoPage
    /\ finalText = NULL
    /\ lastWaitMs = 0
    /\ sent = 0
    /\ typed = FALSE
    /\ markerSeen = FALSE
    /\ thinkingHist = "none"
    /\ sameRun = 0
    /\ scen = -1
    /\ simple = NoSimple
    /\ urlRead = FALSE
    /\ extracts = 0

\* The model switch of one blockingAsk, from line 691 on: the session has
\* started, the caller asked for any of Targets. The selectModel call is
\* recorded.
InitSelect ==
    /\ sessionState \in {[PollEntrySession EXCEPT !.conversationId = NULL,
                                                  !.currentModel = cm]
                         : cm \in {NULL, "GPT-5 Instant"}}
    /\ sessionInitialized = TRUE
    /\ browserRunning = TRUE
    /\ pc = "model"
    /\ call \in [op : {"ask"}, timeoutMinutes : {MinTimeoutMinutes}, model : Targets]
    /\ LocalsAtRest
    /\ monitoring = TRUE
    /\ sel = NoSel
    /\ located = NoLocated
    /\ FnObsAtRest

NextSelect ==
    \/ AskModel
    \/ SendPrompt
    \/ OpCatch

SpecSelect == InitSelect /\ [][NextSelect]_vars

\* One call of findElement on any selector list of up to MaxSelectors candidates.
InitFind ==
    /\ sessionState = PollEntrySession
    /\ sessionInitialized = TRUE
    /\ browserRunning = TRUE
    /\ pc = "find"
    /\ call = [op |-> "reply", timeoutMinutes |-> MinTimeoutMinutes, model |-> NULL]
    /\ LocalsAtRest
    /\ monitoring = FALSE
    /\ sel = NoSel
    /\ located \in [called : {FALSE}, matches : SelectorMatches, timeout : FindTimeouts,
                    returned : {NoElement}, waited : {0}, probed : {FALSE},
                    exists : {FALSE}]
    /\ FnObsAtRest

FindElement ==
    /\ pc = "find"
    /\ located' = [located EXCEPT !.called = TRUE,
                                  !.returned = findElement(located.matches),
                                  !.waited = findElementWaited(located.matches,
                                                               located.timeout)]
    /\ pc' = "found"
    /\ UNCHANGED <<fnObs, sessionVars, call, exc, result, delivery, now, pollLocals, pollRet,
                   pollObs, sent, typed, simple, sel, urlRead, extracts>>

NextFind == FindElement

SpecFind == InitFind /\ [][NextFind]_vars

\* Tool calls on a server, from its construction on or from a session started
\* earlier (logged in, any project selected or none, a conversation open or
\* none), each followed as far as its
\* session start and, where that failed, the way the failure leaves the
\* operation; a reply is followed as far as the submission of its prompt, the
\* two tools to their return. The login checks of each session start and what
\* navigateTo returned to newConversation are recorded.
InitSession ==
    /\ \/ /\ sessionState = InitialSessionState
          /\ sessionInitialized = FALSE
          /\ browserRunning = FALSE
       \/ /\ sessionState \in {[PollEntrySession EXCEPT !.conversationId = c,
                                                         !.currentProjectUrl = url]
                                : c \in ChatIds \cup {NULL},
                                  url \in {ProjectUrl(pr) : pr \in Projects} \cup {NULL}}
          /\ sessionInitialized = TRUE
          /\ browserRunning = TRUE
    /\ pc = "idle"
    /\ call = [op |-> "reply", timeoutMinutes |-> MinTimeoutMinutes, model |-> NULL]
    /\ LocalsAtRest
    /\ monitoring = TRUE
    /\ sel = NoSel
    /\ located = NoLocated
    /\ FnObsAtRest

NextSession ==
    \/ Call
    \/ EnsureSession
    \/ SendPrompt
    \/ SelectProject
    \/ NewConversation
    \/ OpCatch
    \/ ToolCatch

SpecSession == InitSession /\ [][NextSession]_vars

\* One blockingAsk from its project switch (line 669) to the submission of the
\* prompt: the session has started, with any project selected or none; the
\* project the caller names is recorded.
InitAsk ==
    /\ sessionState \in {[PollEntrySession EXCEPT !.conversationId = NULL,
                                                  !.currentProjectUrl = url]
                         : url \in {ProjectUrl(pr) : pr \in Projects} \cup {NULL}}
    /\ sessionInitialized = TRUE
    /\ browserRunning = TRUE
    /\ pc = "project"
    /\ call \in [op : {"ask"}, timeoutMinutes : {MinTimeoutMinutes},
                 model : ModelNames \cup {NULL}]
    /\ LocalsAtRest
    /\ monitoring = TRUE
    /\ sel = NoSel
    /\ located = NoLocated
    /\ FnObsAtRest

NextAsk ==
    \/ AskProject
    \/ AskModel
    \/ SendPrompt
    \/ OpCatch

SpecAsk == InitAsk /\ [][NextAsk]_vars

\* Tool calls in flight at once, each on its way through getPage and
\* launchBrowser: every await of lines 32-46 is a point where another call runs.
InitLaunch ==
    /\ sessionState = InitialSessionState
    /\ sessionInitialized = FALSE
    /\ browserRunning = FALSE
    /\ pc = "idle"
    /\ call = [op |-> "reply", timeoutMinutes |-> MinTimeoutMinutes, model |-> NULL]
    /\ LocalsAtRest
    /\ monitoring = FALSE
    /\ sel = NoSel
    /\ located = NoLocated
    /\ extracted = NoExtracted
    /\ cleaned = NoCleaned
    /\ asked = NULL
    /\ login = NoLogin
    /\ scan = NoScan
    /\ browser = NoBrowser
    /\ callers = [c \in Callers |-> "idle"]
    /\ sending = NoSending

LaunchFrame ==
    UNCHANGED <<extracted, cleaned, asked, login, scan, sending, auxObs, sessionState,
                sessionInitialized, call, exc, result, delivery, now, pollLocals,
                pollRet, pollObs, sent, typed, pc>>

\* getPage (lines 62-67) and the head of launchBrowser (lines 28-32): with a
\* live page the call has it at once; without, it goes on to launch and is
\* suspended at the await of line 32.
GetPage(c) ==
    /\ callers[c] = "idle"
    /\ callers' = [callers EXCEPT ![c] = IF browser.page # NoContext THEN "hasPage"
                                         ELSE "ensureUserDataDir"]
    /\ UNCHANGED <<browser, browserRunning>>
    /\ LaunchFrame

\* Line 32 resolved: the call asks for a persistent context (line 34) and is
\* suspended until the launch is over.
LaunchPersistentContext(c) ==
    /\ callers[c] = "ensureUserDataDir"
    /\ callers' = [callers EXCEPT ![c] = "launching"]
    /\ UNCHANGED <<browser, browserRunning>>
    /\ LaunchFrame

\* Lines 34-48: the launch is over. A launch that succeeds gives a new context,
\* and the module variables are overwritten with it and its page; a launch may
\* also fail (the profile directory is in use, the browser does not start).
LaunchDone(c) ==
    /\ callers[c] = "launching"
    /\ \E launchOk \in BOOLEAN :
         IF launchOk
         THEN /\ browser' = [context |-> c, page |-> c, live |-> browser.live \cup {c}]
              /\ browserRunning' = TRUE
              /\ callers' = [callers EXCEPT ![c] = "hasPage"]
         ELSE /\ callers' = [callers EXCEPT ![c] = "failed"]
              /\ UNCHANGED <<browser, browserRunning>>
    /\ LaunchFrame

\* The tool call is over, with the page or with the failure.
CallOver(c) ==
    /\ callers[c] \in {"hasPage", "failed"}
    /\ callers' = [callers EXCEPT ![c] = "idle"]
    /\ UNCHANGED <<browser, browserRunning>>
    /\ LaunchFrame

NextLaunch ==
    \/ \E c \in Callers : GetPage(c)
    \/ \E c \in Callers : LaunchPersistentContext(c)
    \/ \E c \in Callers : LaunchDone(c)
    \/ \E c \in Callers : CallOver(c)

SpecLaunch == InitLaunch /\ [][NextLaunch]_vars

\* The option scan and the match of one selectModel call whose dropdown opened,
\* on any list of up to MaxItems elements.
InitScan ==
    /\ sessionState = PollEntrySession
    /\ sessionInitialized = TRUE
    /\ browserRunning = TRUE
    /\ pc = "scan"
    /\ call = [op |-> "ask", timeoutMinutes |-> MinTimeoutMinutes, model |-> NULL]
    /\ LocalsAtRest
    /\ monitoring = FALSE
    /\ sel = NoSel
    /\ located = NoLocated
    /\ extracted = NoExtracted
    /\ cleaned = NoCleaned
    /\ asked = NULL
    /\ login = NoLogin
    /\ scan \in [called : {FALSE}, items : ItemLists, modelName : {"pro", "Thinking"},
                 available : {<<>>}, clicked : {0}, selected : {NULL}]
    /\ browser = NoBrowser
    /\ callers = NoCallers
    /\ sending = NoSending

ScanOptions ==
    /\ pc = "scan"
    /\ LET r == scanAndClick(scan.items, scan.modelName)
       IN  scan' = [scan EXCEPT !.called = TRUE, !.available = r.available,
                                !.clicked = r.clicked, !.selected = r.selected]
    /\ pc' = "scanned"
    /\ UNCHANGED <<extracted, cleaned, asked, login, browser, callers, sending, auxObs,
                   sessionVars, call, exc, result, delivery, now, pollLocals, pollRet,
                   pollObs, sent, typed>>

NextScan == ScanOptions

SpecScan == InitScan /\ [][NextScan]_vars

\* One call of cleanText on any text of up to MaxTokens pieces, and one more on
\* what it gave.
InitClean ==
    /\ sessionState = PollEntrySession
    /\ sessionInitialized = TRUE
    /\ browserRunning = TRUE
    /\ pc = "clean"
    /\ call = [op |-> "reply", timeoutMinutes |-> MinTimeoutMinutes, model |-> NULL]
    /\ LocalsAtRest
    /\ monitoring = FALSE
    /\ sel = NoSel
    /\ located = NoLocated
    /\ extracted = NoExtracted
    /\ cleaned \in [called : {FALSE}, input : CleanInputs, once : {<<>>}, twice : {<<>>}]
    /\ asked = NULL
    /\ login = NoLogin
    /\ scan = NoScan
    /\ browser = NoBrowser
    /\ callers = NoCallers
    /\ sending = NoSending

CleanText ==
    /\ pc = "clean"
    /\ cleaned' = [cleaned EXCEPT !.called = TRUE,
                                  !.once = cleanText(cleaned.input),
                                  !.twice = cleanText(cleanText(cleaned.input))]
    /\ pc' = "cleaned"
    /\ UNCHANGED <<extracted, asked, login, scan, browser, callers, sending, auxObs,
                   sessionVars,
                   call, exc, result, delivery, now, pollLocals, pollRet, pollObs, sent,
                   typed>>

NextClean == CleanText

SpecClean == InitClean /\ [][NextClean]_vars

\* One call of getLatestResponseText on any page: one turn or two, each
\* strategy reading any of RawTexts.
InitExtract ==
    /\ sessionState = PollEntrySession
    /\ sessionInitialized = TRUE
    /\ browserRunning = TRUE
    /\ pc = "extractText"
    /\ call = [op |-> "reply", timeoutMinutes |-> MinTimeoutMinutes, model |-> NULL]
    /\ LocalsAtRest
    /\ monitoring = FALSE
    /\ sel = NoSel
    /\ located = NoLocated
    /\ extracted \in [called : {FALSE}, turns : {1, 2}, raw : [1..4 -> RawTexts],
                      throws : BOOLEAN, returned : {NullText}]
    /\ cleaned = NoCleaned
    /\ asked = NULL
    /\ login = NoLogin
    /\ scan = NoScan
    /\ browser = NoBrowser
    /\ callers = NoCallers
    /\ sending = NoSending

GetLatestResponseText ==
    /\ pc = "extractText"
    /\ extracted' = [extracted EXCEPT
                        !.called = TRUE,
                        !.returned = getLatestResponseTextOf(extracted.turns,
                                                             extracted.raw,
                                                             extracted.throws)]
    /\ pc' = "extractedText"
    /\ UNCHANGED <<cleaned, asked, login, scan, browser, callers, sending, auxObs,
                   sessionVars,
                   call, exc, result, delivery, now, pollLocals, pollRet, pollObs, sent,
                   typed>>

NextExtract == GetLatestResponseText

SpecExtract == InitExtract /\ [][NextExtract]_vars

\* One call of one of the three page queries that swallow a failure:
\* findElement or elementExists on any selector list, getLatestResponseText on
\* any page.
InitQuery ==
    /\ sessionState = PollEntrySession
    /\ sessionInitialized = TRUE
    /\ browserRunning = TRUE
    /\ pc \in {"find", "exists", "extractText"}
    /\ call = [op |-> "reply", timeoutMinutes |-> MinTimeoutMinutes, model |-> NULL]
    /\ LocalsAtRest
    /\ monitoring = FALSE
    /\ sel = NoSel
    /\ IF pc = "extractText"
       THEN located = NoLocated
       ELSE located \in [called : {FALSE}, matches : SelectorMatches,
                         timeout : {DEFAULT_FIND_TIMEOUT_MS}, returned : {NoElement},
                         waited : {0}, probed : {FALSE}, exists : {FALSE}]
    /\ IF pc = "extractText"
       THEN extracted \in [called : {FALSE}, turns : {1, 2}, raw : [1..4 -> RawTexts],
                           throws : BOOLEAN, returned : {NullText}]
       ELSE extracted = NoExtracted
    /\ cleaned = NoCleaned
    /\ asked = NULL
    /\ login = NoLogin
    /\ scan = NoScan
    /\ browser = NoBrowser
    /\ callers = NoCallers
    /\ sending = NoSending

ElementExists ==
    /\ pc = "exists"
    /\ located' = [located EXCEPT !.probed = TRUE,
                                  !.exists = elementExists(located.matches)]
    /\ pc' = "existsChecked"
    /\ UNCHANGED <<fnObs, sessionVars, call, exc, result, delivery, now, pollLocals, pollRet,
                   pollObs, sent, typed, simple, sel, urlRead, extracts>>

NextQuery ==
    \/ FindElement
    \/ ElementExists
    \/ GetLatestResponseText

SpecQuery == InitQuery /\ [][NextQuery]_vars

\* One sendPromptText call on any page: each candidate of the two controls
\* there or not, each page action going through or not.
InitSend ==
    /\ sessionState = PollEntrySession
    /\ sessionInitialized = TRUE
    /\ browserRunning = TRUE
    /\ pc = "sendText"
    /\ call = [op |-> "reply", timeoutMinutes |-> MinTimeoutMinutes, model |-> NULL]
    /\ LocalsAtRest
    /\ monitoring = FALSE
    /\ sel = NoSel
    /\ located = NoLocated
    /\ extracted = NoExtracted
    /\ cleaned = NoCleaned
    /\ asked = NULL
    /\ login = NoLogin
    /\ scan = NoScan
    /\ browser = NoBrowser
    /\ callers = NoCallers
    /\ sending \in [called : {FALSE}, inputMatches : ControlMatches,
                    sendMatches : ControlMatches, typeOk : BOOLEAN, clickOk : BOOLEAN,
                    enterOk : BOOLEAN, urlChat : ChatIds \cup {NULL},
                    did : {NoSending.did}]

SendPromptText ==
    /\ pc = "sendText"
    /\ LET did == sendPromptText(sending.inputMatches, sending.sendMatches,
                                 sending.typeOk, sending.clickOk, sending.enterOk,
                                 sending.urlChat)
       IN  /\ sending' = [sending EXCEPT !.called = TRUE, !.did = did]
           /\ typed' = did.typed
           /\ sent' = sent + did.clicks + did.enters
           /\ exc' = IF did.thrown = "none" THEN exc ELSE Err(did.thrown)
           /\ sessionState' = IF did.thrown = "none"
                              THEN CaptureConversationId(sessionState, did.urlChat)
                              ELSE sessionState
           /\ now' = IF did.thrown # "none" THEN now
                     ELSE now + TYPE_TO_SEND_MS + SEND_TO_URL_MS
           /\ pc' = IF did.thrown = "none" THEN "sentText" ELSE "catch"
    /\ UNCHANGED <<extracted, cleaned, asked, login, scan, browser, callers, auxObs,
                   sessionInitialized, browserRunning, call, result, delivery,
                   pollLocals, pollRet, pollObs>>

NextSend ==
    \/ SendPromptText
    \/ OpCatch

SpecSend == InitSend /\ [][NextSend]_vars

\* One ensureSession call followed through the calls nested in it, on a server
\* in any state: started before or not, a project set or not, the browser
\* running or not at each entry.
InitChain ==
    /\ sessionState = InitialSessionState
    /\ sessionInitialized = FALSE
    /\ browserRunning = FALSE
    /\ pc = "chain"
    /\ call = [op |-> "reply", timeoutMinutes |-> MinTimeoutMinutes, model |-> NULL]
    /\ LocalsAtRest
    /\ monitoring = FALSE
    /\ sel = NoSel
    /\ located = NoLocated
    /\ extracted = NoExtracted
    /\ cleaned = NoCleaned
    /\ asked = NULL
    /\ login \in {[NoLogin EXCEPT !.initialized = i, !.projectSet = p, !.runs = rs]
                   : i \in BOOLEAN, p \in BOOLEAN, rs \in SessionRuns}
    /\ scan = NoScan
    /\ browser = NoBrowser
    /\ callers = NoCallers
    /\ sending = NoSending

EnsureSessionChain ==
    /\ pc = "chain"
    /\ login' = [login EXCEPT
                    !.chained = TRUE,
                    !.chain = ensureSessionChain(login.initialized, login.projectSet,
                                                 login.runs, 1)]
    /\ pc' = "chained"
    /\ UNCHANGED <<extracted, cleaned, asked, scan, browser, callers, sending, auxObs,
                   sessionVars, call, exc, result, delivery, now, pollLocals, pollRet,
                   pollObs, sent, typed>>

NextChain == EnsureSessionChain

SpecChain == InitChain /\ [][NextChain]_vars

\* Two submission operations in flight on one server (index.ts lines 56-64:
\* each handler awaits its operation, and nothing keeps a second request from
\* being handled while the first is suspended). This operation is a reply
\* about to submit; the other is a blockingAsk that names a model and opens
\* its own conversation. callers[1] is the other operation's position.
OtherModel == "GPT-5 Pro"

OtherChat == "c-2"

InitRace ==
    /\ sessionState = PollEntrySession
    /\ sessionInitialized = TRUE
    /\ browserRunning = TRUE
    /\ pc = "send"
    /\ call = [op |-> "reply", timeoutMinutes |-> MinTimeoutMinutes, model |-> NULL]
    /\ LocalsAtRest
    /\ monitoring = FALSE
    /\ sel = NoSel
    /\ located = NoLocated
    /\ extracted = NoExtracted
    /\ cleaned = NoCleaned
    /\ asked = NULL
    /\ login = NoLogin
    /\ scan = NoScan
    /\ browser = NoBrowser
    /\ callers = <<"idle">>
    /\ sending = NoSending

\* What every step of the other operation leaves alone: all of this operation.
OtherFrame ==
    UNCHANGED <<extracted, cleaned, asked, login, scan, browser, sending, auxObs,
                sessionInitialized, browserRunning, call, exc, result, delivery, now,
                pollLocals, pollRet, pollObs, sent, typed, pc>>

\* The other blockingAsk arrives and, its session being up, comes to its model
\* switch (lines 691-705).
OtherCall ==
    /\ callers[1] = "idle"
    /\ callers' = [callers EXCEPT ![1] = "model"]
    /\ UNCHANGED sessionState
    /\ OtherFrame

\* The other operation's selectModel succeeds and records the model (line 556).
OtherSelectModel ==
    /\ callers[1] = "model"
    /\ sessionState' = [sessionState EXCEPT !.currentModel = OtherModel]
    /\ callers' = [callers EXCEPT ![1] = "send"]
    /\ OtherFrame

\* The other operation's sendPromptText reads its conversation id off the URL
\* (lines 315-321). Its position tells whether this operation had submitted.
OtherSendPrompt ==
    /\ callers[1] = "send"
    /\ sessionState' = CaptureConversationId(sessionState, OtherChat)
    /\ callers' = [callers EXCEPT ![1] = IF typed THEN "submittedLater"
                                         ELSE "submittedFirst"]
    /\ OtherFrame

NextRace ==
    \/ SendPrompt
    \/ PollStart
    \/ PollIteration
    \/ FinalExtract
    \/ PollTimeout
    \/ OpReturn
    \/ OpCatch
    \/ OtherCall
    \/ OtherSelectModel
    \/ OtherSendPrompt

SpecRace == InitRace /\ [][NextRace]_vars

\* ------------------------------------------------------------------- claims

PerRequestFailures ==
    {"PromptInputNotFound", "ModelSelectionFailed", "ProjectNotFound", "Timeout"}

EmptyFields(r) ==
    /\ r.response = ""
    /\ r.elapsed_seconds = 0
    /\ r.model = NULL
    /\ r.chat_id = NULL
    /\ r.poll_count = 0

\* C1: blockingAsk, blockingReply and uploadFiles never throw to their caller
\* for a per-request failure (prompt input not found, model or project not
\* found, poll timeout): the operation ends by returning an AskResult whose
\* error is that failure and whose other fields are '', 0, null, null, 0.
C1_PerRequestFailureReturnsErrorResult ==
    /\ (pc = "done" /\ exc.kind \in PerRequestFailures)
          => (delivery = "returned" /\ result.error = exc /\ EmptyFields(result))
    /\ (pc = "done" /\ result.error.kind \in PerRequestFailures)
          => (delivery = "returned" /\ EmptyFields(result))
    /\ (pc = "catch" => exc # NoError)

C1_Witness ==
    /\ pc = "done"
    /\ call.op = "upload"
    /\ exc.kind = "Timeout"
    /\ pollCount > 0
    /\ delivery = "returned"
    /\ result.error.kind = "Timeout"

\* C2: when the detector never reports complete (and every detector call
\* returns), an operation started with a timeout of T minutes ends in Timeout;
\* the Timeout is raised only at T*60 seconds or more after polling started,
\* carries that elapsed time, and reaches the caller as the error of a returned
\* result.
C2_NeverCompleteEndsInTimeout ==
    /\ exc.kind = "Timeout"
          => /\ exc.minutes = call.timeoutMinutes
             /\ exc.elapsedSeconds >= call.timeoutMinutes * 60
             /\ exc.elapsedSeconds * 1000 <= now - startTime
             /\ now - startTime < (exc.elapsedSeconds + 1) * 1000
    /\ (pc = "done" /\ ~det.complete /\ exc.kind # "EvaluateFailed")
          => /\ exc.kind = "Timeout"
             /\ delivery = "returned"
             /\ result.error = exc

C2_Witness ==
    /\ pc = "done"
    /\ call.timeoutMinutes = 1
    /\ ~det.complete
    /\ exc.kind = "Timeout"
    /\ exc.elapsedSeconds > 60
    /\ delivery = "returned"

\* C3: when poll k is the first to see the marker on the last turn, with an
\* extracted length that is nonzero and equal to the length seen at poll k-1,
\* the detector reports complete at poll k; the result then carries the text
\* of the extraction made after that report and poll_count = k, the number of
\* iterations run.
C3_MarkerWithStableLengthCompletes ==
    /\ [][(/\ pc = "poll"
           /\ pollCount' = pollCount + 1
           /\ pc' # "catch"
           /\ ~markerSeen
           /\ markerSeen'
           /\ lastContentLength' > 0
           /\ lastContentLength' = lastContentLength)
          => (det'.complete /\ pc' = "extract")]_vars
    /\ [](pc = "done" /\ det.complete
            => /\ delivery = "returned"
               /\ result.error = NoError
               /\ result.poll_count = pollCount
               /\ result.response = (IF finalText = NULL THEN "" ELSE finalText))

C3_Witness ==
    /\ pc = "done"
    /\ markerSeen
    /\ stableCount = 1
    /\ pollCount = 4
    /\ result.poll_count = 4
    /\ result.response = "bbbbb"
    /\ lastContentLength = 5

\* C4 as stated: with no marker on the last turn, isThinking false at every poll,
\* the fallback rule completes on the 10th consecutive poll that extracted the
\* same nonzero length.
C4_CompletesOnTenthSameLength ==
    (monitoring /\ ~markerSeen /\ thinkingHist = "never" /\ sameRun = 10)
        => det.complete

\* C4 amended: with no marker on the last turn and isThinking false at every
\* poll, the fallback rule completes on the 11th consecutive poll that extracted
\* the same nonzero length (the poll at which stableCount reaches 10, the 10th
\* stable check), and on no earlier one.
C4_CompletesOnTenthStableCheck ==
    (monitoring /\ ~markerSeen /\ thinkingHist = "never" /\ pollCount > 0)
        => /\ stableCount = (IF sameRun = 0 THEN 0 ELSE sameRun - 1)
           /\ det.complete <=> (sameRun = 11)

C4_Witness ==
    /\ ~markerSeen
    /\ thinkingHist = "never"
    /\ sameRun = 11
    /\ stableCount = 10
    /\ det.complete
    /\ pc = "done"
    /\ result.error = NoError

C6_EarlierMarkerNeverCompletes ==
    (pc = "detected" /\ EarlierTurnHasCopy(page) /\ ~page.turns[Len(page.turns)])
        => ~det.complete

\* C6 amended: on a page with the marker on an earlier turn and not on the most
\* recent one, the primary rule does not fire: isGenerationComplete reports
\* complete only through the fallback rule, that is exactly when isThinking is
\* false, the length is nonzero and newStableCount >= 10.
C6_EarlierMarkerCompletesOnlyByFallback ==
    (pc = "detected" /\ EarlierTurnHasCopy(page) /\ ~page.turns[Len(page.turns)])
        => (det.complete <=> /\ ~isThinking(page)
                             /\ det.contentLength > 0
                             /\ det.newStableCount >= 10)

C6_Witness ==
    /\ pc = "detected"
    /\ page.turns = <<FALSE, TRUE, FALSE, FALSE>>
    /\ det.contentLength > 0
    /\ det.newStableCount = 5
    /\ ~det.complete

C8_StableCountRule ==
    /\ [](pc = "poll" /\ pollCount = 0 => lastContentLength = 0 /\ stableCount = 0)
    /\ [][(pc = "poll" /\ pollCount' = pollCount + 1 /\ pc' # "catch")
          => stableCount' = (IF lastContentLength' > 0
                                  /\ lastContentLength' = lastContentLength
                             THEN stableCount + 1 ELSE 0)]_vars
    /\ [](scen >= 1 /\ scen = pollCount
            => /\ lastContentLength = ScenarioLens[scen]
               /\ stableCount = ScenarioStable[scen])

C8_Witness ==
    /\ scen = 6
    /\ pollCount = 6
    /\ lastContentLength = 7
    /\ stableCount = 1

C9Schedule == <<2, 3, 5, 8, 13, 21, 30, 30>>

\* C9: the delay slept before detector call i (from 0) is 2, 3, 5, 8, 13, 21,
\* 30, 30 seconds for i = 0..7 and 30 seconds for every i >= 6; the schedule
\* never decreases and never exceeds 30 seconds, and the detector call comes
\* after the sleep.
C9_BackoffSchedule ==
    /\ [](pollCount >= 1 =>
            LET i == pollCount - 1
            IN  /\ i <= 7 => lastWaitMs = C9Schedule[i + 1] * 1000
                /\ i >= 6 => lastWaitMs = 30 * 1000
                /\ lastWaitMs <= 30 * 1000)
    /\ [][pollCount' = pollCount + 1
          => (lastWaitMs' >= lastWaitMs /\ now' >= now + lastWaitMs')]_vars

C9_Witness ==
    /\ pollCount = 9
    /\ lastWaitMs = 30000
    /\ pc = "poll"

\* C10 as stated: every result returned by a submission operation, the one
\* returned for a timeout included, reports in poll_count the number of poll
\* iterations the operation ran and in elapsed_seconds the time it took
\* (stated here for the results of a completion and of a timeout, with the
\* time counted from the start of polling).
C10_ResultReportsPollsAndElapsed ==
    (pc = "done" /\ delivery = "returned" /\ exc.kind \in {"none", "Timeout"})
        => /\ result.poll_count = pollCount
           /\ result.elapsed_seconds = ElapsedSeconds(now, startTime)

SessionFailures == {"NavigationFailed", "NotLoggedIn"}

\* C11 as stated: when ensureSession fails inside blockingAsk, blockingReply or
\* uploadFiles (navigation failed, or not logged in after the retries), the
\* operation ends by throwing to its caller, not by returning a result.
C11_SessionFailureIsThrown ==
    (pc = "done" /\ call.op \in Ops /\ exc.kind \in SessionFailures)
        => delivery = "thrown"

C13_FieldsChangeOnlyInTheirOwners ==
    [][/\ sessionState'.currentModel # sessionState.currentModel
            => pc = "model"
       /\ sessionState'.currentProjectUrl # sessionState.currentProjectUrl
            => \/ pc \in {"project", "selectProject"}
               \/ /\ pc = "ensure"
                  /\ ~(sessionInitialized /\ browserRunning)
                  /\ sessionState'.currentProjectUrl = ProjectUrl(DefaultProject)
       /\ sessionState'.conversationId # sessionState.conversationId
            => \/ /\ pc \in {"send", "attach"}
                  /\ sessionState'.conversationId \in ChatIds
               \/ /\ sessionState'.conversationId = NULL
                  /\ \/ pc \in {"newConversation", "selectProject", "project"}
                     \/ /\ pc = "ensure"
                        /\ sessionState'.currentProjectUrl
                               # sessionState.currentProjectUrl]_vars

C13_Witness ==
    /\ pc = "pollStart"
    /\ call.op = "ask"
    /\ sessionState.currentModel = "GPT-5 Instant"
    /\ sessionState.currentProjectUrl = ProjectUrl("work")
    /\ sessionState.conversationId = "c-1"

C15_OneFreshExtractionAfterComplete ==
    /\ []((pc \in {"return", "done"} /\ det.complete)
            => /\ extracts = 1
               /\ pollRet.response = (IF finalText = NULL THEN "" ELSE finalText)
               /\ pollRet.pollCount = pollCount)
    /\ [](~det.complete => extracts = 0)
    /\ [][det.complete
            => /\ pollCount' = pollCount
               /\ lastWaitMs' = lastWaitMs
               /\ det' = det
               /\ extracts' <= 1]_vars

C15_Witness ==
    /\ pc = "done"
    /\ det.complete
    /\ det.contentLength = 5
    /\ extracts = 1
    /\ finalText = "ccccccc"
    /\ result.response = "ccccccc"

PollComplete == pollRet # NoPollRet

PollTimedOut == exc.kind = "Timeout"

\* C16: when every sleep and page call returns, every run of pollUntilComplete
\* ends, in Complete (it returned) or in TimedOut (it threw Timeout), never in
\* both, and once ended it does not poll again.
C16_PollEndsCompleteOrTimedOut ==
    /\ <>(PollComplete \/ PollTimedOut)
    /\ <>(pc = "done")
    /\ [](~(PollComplete /\ PollTimedOut))
    /\ []((PollComplete \/ PollTimedOut) => pc \in {"return", "catch", "done"})
    /\ [](pc = "done" => (PollComplete \/ PollTimedOut))

C16_Witness ==
    /\ pc = "done"
    /\ call.timeoutMinutes > MinTimeoutMinutes
    /\ PollTimedOut
    /\ ~PollComplete
    /\ pollCount > 7

\* How well option i of the opened dropdown matches the name asked for:
\* 1 equal, 2 starts with it, 3 contains it, 4 no match (all in lower case,
\* the name trimmed).
MatchLevel(options, i, modelName) ==
    LET label == toLowerCase(Chars(options[i]))
        target == trim(toLowerCase(Chars(modelName)))
    IN  IF label = target THEN 1
        ELSE IF startsWith(label, target) THEN 2
        ELSE IF includes(label, target) THEN 3
        ELSE 4

\* C17: once selectModel has opened the dropdown, the option it selects is of
\* the best level present (exact before prefix before substring, case
\* ignored) and is the first option of that level in discovery order; with
\* options GPT-5 Instant, GPT-5 Thinking, GPT-5 Pro and the name "pro" it
\* selects GPT-5 Pro.
C17_MatchPrecedence ==
    (sel.called /\ sel.clicks >= 1)
        => LET options == sel.menu.options
               level(i) == MatchLevel(options, i, sel.modelName)
           IN  /\ sel.thrown = NoError
                    <=> \E i \in 1..Len(options) : level(i) < 4
               /\ sel.thrown = NoError
                    => \E i \in 1..Len(options) :
                         /\ options[i] = sel.returned
                         /\ level(i) < 4
                         /\ \A j \in 1..Len(options) : level(j) >= level(i)
                         /\ \A j \in 1..(i - 1) : level(j) > level(i)
               /\ (/\ options = <<"GPT-5 Instant", "GPT-5 Thinking", "GPT-5 Pro">>
                   /\ sel.modelName = "pro")
                    => sel.returned = "GPT-5 Pro"

C17_Witness ==
    /\ sel.called
    /\ sel.modelName = "pro"
    /\ sel.menu.options = <<"GPT-5 Pro", "GPT-5 Instant", "Pro">>
    /\ sel.clicks = 2
    /\ sel.returned = "Pro"
    /\ sessionState.currentModel = "Pro"

\* C18: when the dropdown was opened and no option matches the name,
\* selectModel presses Escape once and throws an error that lists every
\* discovered label; currentModel stays as it was, and blockingAsk returns an
\* error result (empty fields) without having typed or sent the prompt.
C18_NoMatchDismissesAndFails ==
    /\ (/\ sel.called
        /\ sel.clicks >= 1
        /\ \A i \in 1..Len(sel.menu.options) :
              MatchLevel(sel.menu.options, i, sel.modelName) = 4)
          => sel.thrown.kind = "OptionNotFound"
    /\ sel.thrown.kind = "OptionNotFound"
          => /\ sel.escapes = 1
             /\ sel.thrown.available = sel.menu.options
             /\ sel.after = sel.before
             /\ sessionState.currentModel = sel.before
             /\ pc = "done"
             /\ delivery = "returned"
             /\ result.error.kind = "ModelSelectionFailed"
             /\ result.error.available = sel.menu.options
             /\ EmptyFields(result)
             /\ sent = 0
             /\ ~typed
             /\ pollCount = 0

C18_Witness ==
    /\ sel.called
    /\ sel.modelName = "o3"
    /\ sel.thrown.kind = "OptionNotFound"
    /\ sel.thrown.available = <<"GPT-5 Instant", "GPT-5 Thinking", "GPT-5 Pro">>
    /\ sel.before = "GPT-5 Instant"
    /\ sel.escapes = 1
    /\ pc = "done"

\* C19: when the label selectModel reads off the model button contains the
\* requested name (case ignored), it makes no click and presses no key,
\* returns that label and records it in currentModel.
C19_AlreadyActiveMakesNoClick ==
    (/\ sel.called
     /\ CurrentModelLabel(sel.menu) # NULL
     /\ includes(toLowerCase(Chars(sel.menu.button)),
                 toLowerCase(Chars(sel.modelName))))
        => /\ sel.clicks = 0
           /\ sel.escapes = 0
           /\ sel.thrown = NoError
           /\ sel.returned = sel.menu.button
           /\ sel.after = sel.menu.button
           /\ sessionState.currentModel = sel.menu.button

C19_Witness ==
    /\ sel.called
    /\ sel.modelName = "pro"
    /\ sel.menu.button = "GPT-5 Pro"
    /\ sel.menu.clickable
    /\ sel.menu.options = <<"Pro">>
    /\ sel.before = "GPT-5 Instant"
    /\ sel.clicks = 0
    /\ sessionState.currentModel = "GPT-5 Pro"

\* C20: findElement returns the element of the first candidate, in list order,
\* that matches a visible element, whatever later candidates match; null when
\* no candidate matches.
C20_FirstMatchingCandidateWins ==
    located.called
        => LET hits == {i \in 1..Len(located.matches) :
                           located.matches[i] \in Elements}
           IN  /\ hits = {} => located.returned = NoElement
               /\ \A k \in hits :
                    (\A j \in hits : k <= j) => located.returned = located.matches[k]

C20_Witness ==
    /\ located.called
    /\ located.matches = <<NoElement, "e1", "e2", "e1">>
    /\ located.returned = "e1"

\* C21: when no candidate of a selector list ever matches, findElement reports
\* not-found having waited no longer than the timeout it was given, however
\* many candidates the list has.
C21_NotFoundWithinOneTimeout ==
    (/\ located.called
     /\ \A i \in 1..Len(located.matches) : located.matches[i] = NoElement)
        => /\ located.returned = NoElement
           /\ located.waited <= located.timeout

\* C22: on a page with a last turn, getLatestResponseText returns the cleaned
\* text of the first of its four strategies, in the order 1 to 4, whose
\* cleaned text is non-empty, and returns null exactly when every strategy's
\* cleaned text is empty; it never returns the empty string.
C22_FirstNonEmptyStrategyOrNull ==
    (extracted.called /\ extracted.turns >= 2 /\ ~extracted.throws) =>
        LET cleanedOf(k) == cleanText(Chars(extracted.raw[k]))
            yielding == {k \in 1..4 : Len(cleanedOf(k)) > 0}
        IN  /\ yielding = {} => extracted.returned = NullText
            /\ yielding # {} =>
                   extracted.returned = TextOf(cleanedOf(FirstOf(yielding)))
            /\ extracted.returned # TextOf(<<>>)

\* C23: cleaning a cleaned text changes nothing: cleanText(cleanText(x)) is
\* cleanText(x) for every text x.
C23_CleanTextIdempotent ==
    cleaned.called => cleaned.twice = cleaned.once

C26_PromptTypedInRequestedProject ==
    (asked # NULL /\ typed) => sessionState.currentProjectUrl = ProjectUrl(asked)

\* C27: at every moment at most one launched browser context is live, and the
\* module's context and page are that one, however the tool calls in flight
\* interleave.
C27_AtMostOneContext ==
    /\ Cardinality(browser.live) <= 1
    /\ browser.live \subseteq {browser.context}

\* C28: a session start that gets as far as its login checks makes at most
\* LOGIN_ATTEMPTS of them and stops at the first that succeeds; it raises the
\* not-logged-in failure exactly when all LOGIN_ATTEMPTS checks failed, so a
\* check that succeeds after one or two failures gives a started session.
C28_LoginChecksStopAtFirstSuccess ==
    (login.called /\ login.started) =>
        /\ login.performed \in 1..LOGIN_ATTEMPTS
        /\ \A i \in 1..(login.performed - 1) : ~login.checks[i]
        /\ login.checks[login.performed] \/ login.performed = LOGIN_ATTEMPTS
        /\ (login.thrown = Err("NotLoggedIn"))
               <=> (\A i \in 1..LOGIN_ATTEMPTS : ~login.checks[i])
        /\ (\E i \in 1..LOGIN_ATTEMPTS : login.checks[i]) => login.thrown = NoError
        /\ pc \notin {"catch", "toolCatch"} =>
               sessionState.isLoggedIn = (login.thrown = NoError)

\* Two login checks failed, the third succeeded, and the session started.
C28_Witness ==
    /\ login.called
    /\ login.started
    /\ login.checks = <<FALSE, FALSE, TRUE>>
    /\ login.performed = LOGIN_ATTEMPTS
    /\ login.thrown = NoError
    /\ sessionInitialized
    /\ sessionState.isLoggedIn
    /\ pc = "send"

\* C29: in the poll loop pollCount goes up by exactly one with each iteration
\* and by nothing else; stableCount is 0 before the first iteration and
\* between 0 and pollCount - 1 after each; so the detector never reports
\* complete on the first poll, and every successful result has poll_count of
\* at least 2.
C29_StableCountBelowPollCount ==
    /\ [][pollCount' = (IF pc = "poll" /\ now < deadline THEN pollCount + 1
                        ELSE pollCount)]_vars
    /\ [](pollCount = 0 => stableCount = 0)
    /\ [](pollCount >= 1 => (0 <= stableCount /\ stableCount <= pollCount - 1))
    /\ [](det.complete => pollCount >= 2)
    /\ [](PollComplete => pollRet.pollCount >= 2)
    /\ []((pc = "done" /\ delivery = "returned" /\ result.error = NoError)
            => result.poll_count >= 2)

\* A reply completed on its second poll, the earliest there is, with the
\* highest stable count two polls allow.
C29_Witness ==
    /\ pc = "done"
    /\ delivery = "returned"
    /\ result.error = NoError
    /\ result.poll_count = 2
    /\ pollCount = 2
    /\ stableCount = 1

\* C30: the options one selectModel call discovers hold no label twice: of the
\* elements that normalize to one label, the first met (in candidate-pattern
\* order, then page order) is the one kept, and it is the element clicked when
\* that label is the match.
C30_OneOptionPerLabelFirstKept ==
    scan.called =>
        LET labelAt(i) == getOptionText(Chars(scan.items[i].raw))
            met(i) == scan.items[i].sized /\ IsModeLabel(labelAt(i))
            kept == {scan.available[k].element : k \in 1..Len(scan.available)}
        IN  /\ \A j, k \in 1..Len(scan.available) :
                   scan.available[j].text = scan.available[k].text => j = k
            /\ \A j, k \in 1..Len(scan.available) :
                   j < k => scan.available[j].element < scan.available[k].element
            /\ \A k \in 1..Len(scan.available) :
                   scan.available[k].text = labelAt(scan.available[k].element)
            /\ \A i \in 1..Len(scan.items) :
                   i \in kept <=> (met(i) /\ \A j \in 1..(i - 1) :
                                                met(j) => labelAt(j) # labelAt(i))
            /\ scan.clicked # 0 =>
                   /\ scan.clicked \in kept
                   /\ Chars(scan.selected) = labelAt(scan.clicked)

\* Three elements normalize to "Pro"; one option is kept, the first element,
\* and it is the one clicked for "pro".
C30_Witness ==
    /\ scan.called
    /\ scan.modelName = "pro"
    /\ scan.items = <<[raw |-> "Pro\nmax", sized |-> TRUE],
                      [raw |-> "ProResearch", sized |-> TRUE],
                      [raw |-> "Pro", sized |-> TRUE]>>
    /\ Len(scan.available) = 1
    /\ scan.available[1].element = 1
    /\ scan.clicked = 1
    /\ scan.selected = "Pro"

\* C31: a candidate whose query fails is passed over: findElement still returns
\* the first candidate that matches, elementExists still answers whether one
\* does, and a failing extraction makes getLatestResponseText return null;
\* findElement reports not-found exactly when no candidate matches, and what
\* each of the three hands back is a result, never the failure.
C31_QueryFailuresAreSwallowed ==
    LET hits == {i \in 1..Len(located.matches) : located.matches[i] \in Elements}
    IN  /\ located.called =>
               /\ located.returned \in Elements \cup {NoElement}
               /\ located.returned = NoElement <=> hits = {}
               /\ hits # {} => located.returned = located.matches[FirstOf(hits)]
        /\ located.probed => (located.exists <=> hits # {})
        /\ (extracted.called /\ extracted.throws) => extracted.returned = NullText
        /\ pc \in {"found", "existsChecked", "extractedText"} => exc = NoError

\* The first candidate's query failed, the second found nothing, and
\* findElement returned the element of the third.
C31_Witness ==
    /\ pc = "found"
    /\ located.called
    /\ located.matches = <<QueryFailed, NoElement, "e2">>
    /\ located.returned = "e2"

\* C32 (as stated): sendPromptText fails only when no candidate of the prompt
\* input is found, and once the prompt is typed exactly one send action, a
\* click or an Enter, goes through.
C32_FailsOnlyWithoutInputAndSendsOnce ==
    sending.called
        => /\ sending.did.thrown # "none" => findElement(sending.inputMatches) = NoElement
           /\ sending.did.typed => sending.did.clicks + sending.did.enters = 1

\* C32 (amended): sendPromptText fails when no candidate of the prompt input is
\* found or when one of its page actions fails; a missing send control is no
\* failure, Enter is pressed instead; and whenever it returns, exactly one send
\* action went through: the click when a send control was found, Enter
\* otherwise.
C32_FailsWithoutInputOrOnFailedActionElseSendsOnce ==
    sending.called
        => LET input == findElement(sending.inputMatches)
               button == findElement(sending.sendMatches)
               did == sending.did
           IN  /\ did.thrown \in {"none", "PromptInputNotFound", "PageActionFailed"}
               /\ did.thrown = "PromptInputNotFound" <=> input = NoElement
               /\ did.thrown = "PageActionFailed"
                    <=> /\ input # NoElement
                        /\ \/ ~sending.typeOk
                           \/ button # NoElement /\ ~sending.clickOk
                           \/ button = NoElement /\ ~sending.enterOk
               /\ did.thrown = "none"
                    => /\ did.typed
                       /\ did.clicks = (IF button # NoElement THEN 1 ELSE 0)
                       /\ did.enters = (IF button = NoElement THEN 1 ELSE 0)
               /\ did.thrown # "none" => did.clicks + did.enters = 0
               /\ sent = did.clicks + did.enters

\* The prompt input was the second candidate, no send control was found, and
\* sendPromptText returned after one Enter and no click.
C32_Witness ==
    /\ pc = "sentText"
    /\ sending.called
    /\ sending.inputMatches = <<NoElement, "e1">>
    /\ \A i \in 1..Len(sending.sendMatches) : sending.sendMatches[i] = NoElement
    /\ Len(sending.sendMatches) = 3
    /\ sending.did.thrown = "none"
    /\ sending.did.enters = 1
    /\ sending.did.clicks = 0

\* C33: an ensureSession call whose nested calls find the browser running
\* comes to an end: the call that starts the session has set
\* sessionInitialized before it selects the default project, so the
\* ensureSession inside selectProject returns at once, and the whole chain
\* makes at most one selectProject call and at most two ensureSession calls.
C33_NestedSessionStartEndsAfterOneSelection ==
    (/\ login.chained
     /\ \A d \in 2..Len(login.runs) : login.runs[d].running)
        => /\ ~login.chain.cut
           /\ login.chain.selections <= 1
           /\ login.chain.entries <= 2
           /\ login.chain.entries = 1 + login.chain.selections

\* A first call on a server that never started, no project set: the session
\* starts, selectProject is called once, and its ensureSession returns at once.
C33_Witness ==
    /\ login.chained
    /\ ~login.initialized
    /\ ~login.projectSet
    /\ login.runs[1].startOk
    /\ \A d \in 2..Len(login.runs) : login.runs[d].running
    /\ login.chain = [selections |-> 1, entries |-> 2, cut |-> FALSE]

\* C34: an ensureSession that fails with not-logged-in leaves
\* sessionInitialized true with the browser running and isLoggedIn false; the
\* ensureSession of every later operation then returns at once: it starts no
\* session, makes no login check, selects no project, changes nothing of the
\* session and raises nothing, and the operation goes on to its next step (for
\* a reply: typing and sending the prompt) with isLoggedIn still false.
C34_FailedLoginStillStartsTheSession ==
    [][/\ (pc = "ensure" /\ exc'.kind = "NotLoggedIn")
            => /\ sessionInitialized'
               /\ browserRunning'
               /\ ~sessionState'.isLoggedIn
       /\ (/\ pc = "ensure"
           /\ pc' # "ensure"
           /\ sessionInitialized
           /\ browserRunning
           /\ ~sessionState.isLoggedIn)
            => /\ UNCHANGED sessionVars
               /\ exc' = NoError
               /\ login'.called
               /\ ~login'.started
               /\ login'.performed = 0
               /\ pc' = AfterEnsure(call.op)
       /\ (pc = "send" /\ pc' = "pollStart")
            => sessionState'.isLoggedIn = sessionState.isLoggedIn]_vars

\* After a session start that failed the login check, a reply has typed and
\* sent its prompt: isLoggedIn is false and no project was selected.
C34_Witness ==
    /\ call.op = "reply"
    /\ pc = "pollStart"
    /\ typed
    /\ sent = 1
    /\ sessionInitialized
    /\ browserRunning
    /\ ~sessionState.isLoggedIn
    /\ sessionState.currentProjectUrl = NULL
    /\ login.called
    /\ login.performed = 0

\* C35: the deadline is tested only where an iteration begins. A timeout is
\* raised only by the loop test, with the clock at or past the deadline and
\* without a further sleep; an iteration is entered only with the clock before
\* the deadline; and once an iteration has detected completion the loop goes
\* on to extract and return, wherever the clock stands, never to a timeout.
C35_DeadlineTestedOnlyAtIterationStart ==
    [][/\ (exc'.kind = "Timeout" /\ exc.kind # "Timeout")
            => /\ pc = "poll"
               /\ now >= deadline
               /\ now' = now
               /\ pollCount' = pollCount
       /\ (pc = "poll" /\ pollCount' = pollCount + 1) => now < deadline
       /\ (pc = "poll" /\ pc' = "extract") => det'.complete
       /\ pc = "extract" => (pc' = "return" /\ exc' = NoError)
       /\ pc = "return"
            => /\ pc' = "done"
               /\ result'.error = NoError
               /\ result'.poll_count = pollCount]_vars

\* An operation has returned a success although the clock passed the deadline
\* before its poll loop returned.
C35_Witness ==
    /\ pc = "done"
    /\ delivery = "returned"
    /\ result.error = NoError
    /\ det.complete
    /\ now > deadline
    /\ result.elapsed_seconds * 1000 > deadline - startTime

\* C36: a detector call that throws ends the poll loop in that iteration: the
\* failure arises in a poll step and goes straight to the operation's catch
\* block, no further poll is made, and the operation returns an error result
\* that carries the failure and poll_count 0, whatever the polls made so far
\* and whatever the detector last reported.
C36_DetectorFailureEndsTheOperation ==
    [][/\ (exc'.kind = "EvaluateFailed" /\ exc.kind # "EvaluateFailed")
            => /\ pc = "poll"
               /\ pc' = "catch"
               /\ pollCount' = pollCount + 1
               /\ det' = det
       /\ pc = "catch"
            => /\ pc' = "done"
               /\ delivery' = "returned"
               /\ result'.error = exc
               /\ result'.poll_count = 0
               /\ result'.response = ""
               /\ pollCount' = pollCount]_vars

\* The detector failed on the third poll of a generation it had twice found
\* unfinished: the operation returned the failure with poll_count 0.
C36_Witness ==
    /\ pc = "done"
    /\ delivery = "returned"
    /\ result.error.kind = "EvaluateFailed"
    /\ result.poll_count = 0
    /\ pollCount = 3
    /\ ~det.complete

C38_NewConversationIgnoresNavigation ==
    [][(pc = "newConversation" /\ pc' = "done")
          => /\ simple'.returned
             /\ simple'.success
             /\ simple'.message = NoError
             /\ sessionState' = [sessionState EXCEPT !.conversationId = NULL]]_vars

\* navigateTo reported a failure while a conversation was open: newConversation
\* returned success = true and conversationId is null.
C38_Witness ==
    /\ call.op = "newConversation"
    /\ pc = "done"
    /\ simple.returned
    /\ simple.success
    /\ ~simple.navOk
    /\ sessionState.conversationId = NULL
    /\ sessionState.isLoggedIn

\* C39: with a second operation in flight, a success result takes its chat_id
\* and model from the shared SessionState as it stands when the operation's
\* polling has ended, whoever wrote it last; and the other operation's writes
\* are taken at any position of this operation, its polling included.
C39_ResultReadsSharedSessionAtReturn ==
    [][/\ (pc = "return" /\ pc' = "done")
            => /\ result'.error = NoError
               /\ result'.chat_id = sessionState.conversationId
               /\ result'.model = sessionState.currentModel
               /\ UNCHANGED <<sessionState, callers>>
       /\ callers' # callers
            => /\ pc' = pc
               /\ result' = result
               /\ (callers'[1] = "send") = (sessionState'.currentModel # sessionState.currentModel)
               /\ callers'[1] \in {"submittedFirst", "submittedLater"}
                    => sessionState'.conversationId = OtherChat]_vars

\* This operation submitted in conversation c-1 with no model set; the other
\* operation then selected a model and submitted in its own conversation, and
\* this operation's success result carries the other's chat_id and model.
C39_Witness ==
    /\ pc = "done"
    /\ result.error = NoError
    /\ callers[1] = "submittedLater"
    /\ result.chat_id = OtherChat
    /\ result.model = OtherModel
    /\ result.poll_count > 0

====
